---- MODULE Spec2Model ----
(***************************************************************************)
(* Verification model of the Jack compiler tool chain.                     *)
(*                                                                         *)
(*   Spec     the pipeline driver (src/main.cpp) running one parse, one    *)
(*            analyse and one generate task per input file against the     *)
(*            shared GlobalRegistry; the registry's operations are taken   *)
(*            at the granularity of their lock and of their reads.         *)
(*   SpecSym  the SymbolTable driven by arbitrary define/startSubroutine   *)
(*            calls.                                                       *)
(*   SpecLex  the Tokenizer on short source texts, under arbitrary         *)
(*            advance and peek calls; SpecNum, the same on digit runs.     *)
(*   SpecExpr one expression through parseExpression, the analyser and     *)
(*            compileExpression.                                           *)
(*   SpecGen  the CodeGenerator on one class the analyser accepted, one    *)
(*            subroutine at a time.                                        *)
(***************************************************************************)
EXTENDS Integers, Sequences, FiniteSets, TLC

\* ------------------------------------------------------------------------
\* Bounds
\* ------------------------------------------------------------------------
\* number of input files on the command line
NumFiles == 2
\* most subroutine declarations in the input files taken together
MaxSubs == 2
\* most define calls in one run of the symbol table
MaxDefines == 4

\* ------------------------------------------------------------------------
\* Input domain of the driver: source files
\* ------------------------------------------------------------------------
Tasks == 1..NumFiles

\* class names a source file can declare (the file's stem; Parser.cpp:82-89
\* rejects any other name)
UserClasses == {"Main", "Foo"}

\* subroutine declarations `kind ret main()` (Parser.cpp:190-211 reads any
\* of the three kinds before any return type).  `method int main()` is left
\* out: every check that tells it from `method void main()` is reached only
\* by a static subroutine; `constructor int main()` is left out: it is
\* treated as `function int main()` up to the analyser.
SubDecls ==
    {d \in [name : {"main"}, kind : {"function", "method", "constructor"},
            ret : {"void", "int"}] :
        ~(d.kind \in {"method", "constructor"} /\ d.ret = "int")}

RECURSIVE SeqsUpTo(_, _)
SeqsUpTo(S, n) ==
    IF n = 0 THEN {<< >>}
    ELSE LET shorter == SeqsUpTo(S, n - 1)
         IN  shorter \cup {Append(q, s) : q \in {r \in shorter : Len(r) = n - 1}, s \in S}

\* A source file: the class it declares and its subroutine declarations in
\* order.  syntaxError: the class body is malformed right after its opening
\* brace, so the file declares no subroutine.  call: the file
\* declares one subroutine, whose body holds the statement `do Foo.main();`
\* (a class with a second subroutine does not get past the parser, every
\* subroutine being named main).  Every body ends with `return;` when the
\* subroutine is declared void and with `return 0;` otherwise.  A
\* constructor is declared only as the one subroutine of a class Main whose
\* body holds no call: that is where the entry point is looked for, and
\* anywhere else the driver tells `constructor void main()` from
\* `function void main()` only by the error the analyser raises on it.
Sources ==
    {s \in [cls : UserClasses, subs : SeqsUpTo(SubDecls, MaxSubs),
            syntaxError : BOOLEAN, call : BOOLEAN] :
        /\ s.syntaxError => Len(s.subs) = 0
        /\ s.call => Len(s.subs) = 1
        /\ (\E i \in DOMAIN s.subs : s.subs[i].kind = "constructor") =>
              (s.cls = "Main" /\ Len(s.subs) = 1 /\ ~s.call)}

RECURSIVE TotalSubs(_, _)
TotalSubs(f, n) == IF n = 0 THEN 0 ELSE Len(f[n].subs) + TotalSubs(f, n - 1)

\* the command lines: NumFiles files declaring at most MaxSubs subroutines
Inputs(n) == {f \in [Tasks -> Sources] : TotalSubs(f, NumFiles) <= n}

\* ------------------------------------------------------------------------
\* GlobalRegistry
\* ------------------------------------------------------------------------
\* the isStatic flag Parser::parseSubroutine registers for a subroutine
isStaticKind(kind) == kind = "function" \/ kind = "constructor"

Sig(ret, params, static, line, column) ==
    [returnType |-> ret, parameters |-> params, isStatic |-> static,
     line |-> line, column |-> column]

\* the standard library: <<class, subroutine, return type, parameters, isStatic>>
StdLibTable ==
    { <<"Math", "init", "void", << >>, TRUE>>,
      <<"Math", "abs", "int", <<"int">>, TRUE>>,
      <<"Math", "multiply", "int", <<"int", "int">>, TRUE>>,
      <<"Math", "divide", "int", <<"int", "int">>, TRUE>>,
      <<"Math", "min", "int", <<"int", "int">>, TRUE>>,
      <<"Math", "max", "int", <<"int", "int">>, TRUE>>,
      <<"Math", "sqrt", "int", <<"int">>, TRUE>>,
      <<"Math", "bit", "boolean", <<"int", "int">>, TRUE>>,
      <<"String", "new", "String", <<"int">>, TRUE>>,
      <<"String", "dispose", "void", << >>, FALSE>>,
      <<"String", "length", "int", << >>, FALSE>>,
      <<"String", "charAt", "char", <<"int">>, FALSE>>,
      <<"String", "setCharAt", "void", <<"int", "char">>, FALSE>>,
      <<"String", "appendChar", "String", <<"char">>, FALSE>>,
      <<"String", "eraseLastChar", "void", << >>, FALSE>>,
      <<"String", "intValue", "int", << >>, FALSE>>,
      <<"String", "setInt", "void", <<"int">>, FALSE>>,
      <<"String", "backSpace", "char", << >>, FALSE>>,
      <<"String", "doubleQuote", "char", << >>, FALSE>>,
      <<"String", "newLine", "char", << >>, FALSE>>,
      <<"String", "int2String", "void", << >>, FALSE>>,
      <<"Array", "new", "Array", <<"int">>, TRUE>>,
      <<"Array", "dispose", "void", << >>, FALSE>>,
      <<"Output", "init", "void", << >>, TRUE>>,
      <<"Output", "moveCursor", "void", <<"int", "int">>, TRUE>>,
      <<"Output", "printChar", "void", <<"char">>, TRUE>>,
      <<"Output", "printString", "void", <<"String">>, TRUE>>,
      <<"Output", "printInt", "void", <<"int">>, TRUE>>,
      <<"Output", "println", "void", << >>, TRUE>>,
      <<"Output", "backSpace", "void", << >>, TRUE>>,
      <<"Output", "initMap", "void", << >>, TRUE>>,
      <<"Output", "create", "void",
        <<"int", "int", "int", "int", "int", "int", "int", "int", "int", "int", "int", "int">>, TRUE>>,
      <<"Output", "getMap", "Array", <<"char">>, TRUE>>,
      <<"Output", "incrementCursor", "void", << >>, TRUE>>,
      <<"Output", "decrementCursor", "void", << >>, TRUE>>,
      <<"Screen", "init", "void", << >>, TRUE>>,
      <<"Screen", "clearScreen", "void", << >>, TRUE>>,
      <<"Screen", "setColor", "void", <<"boolean">>, TRUE>>,
      <<"Screen", "drawPixel", "void", <<"int", "int">>, TRUE>>,
      <<"Screen", "drawLine", "void", <<"int", "int", "int", "int">>, TRUE>>,
      <<"Screen", "drawRectangle", "void", <<"int", "int", "int", "int">>, TRUE>>,
      <<"Screen", "drawCircle", "void", <<"int", "int", "int">>, TRUE>>,
      <<"Keyboard", "init", "void", << >>, TRUE>>,
      <<"Keyboard", "keyPressed", "char", << >>, TRUE>>,
      <<"Keyboard", "readChar", "char", << >>, TRUE>>,
      <<"Keyboard", "readLine", "String", <<"String">>, TRUE>>,
      <<"Keyboard", "readInt", "int", <<"String">>, TRUE>>,
      <<"Memory", "init", "void", << >>, TRUE>>,
      <<"Memory", "peek", "int", <<"int">>, TRUE>>,
      <<"Memory", "poke", "void", <<"int", "int">>, TRUE>>,
      <<"Memory", "alloc", "int", <<"int">>, TRUE>>,
      <<"Memory", "deAlloc", "void", <<"Array">>, TRUE>>,
      <<"Sys", "init", "void", << >>, TRUE>>,
      <<"Sys", "halt", "void", << >>, TRUE>>,
      <<"Sys", "error", "void", <<"int">>, TRUE>>,
      <<"Sys", "wait", "void", <<"int">>, TRUE>> }

\* the registry right after construction
loadStandardLibrary ==
    LET stdClasses == {e[1] : e \in StdLibTable}
        entry(c, m) == CHOOSE e \in StdLibTable : e[1] = c /\ e[2] = m
    IN  [classes |-> stdClasses,
         methods |-> [c \in stdClasses |->
                        [m \in {e[2] : e \in {x \in StdLibTable : x[1] = c}} |->
                            Sig(entry(c, m)[3], entry(c, m)[4], entry(c, m)[5], 0, 0)]]]

\* classes.insert(className)
registerClass(classes, className) == classes \cup {className}

\* methods[className].count(methodName): operator[] creates the class's map
MethodsAt(methods, className) ==
    IF className \in DOMAIN methods THEN methods[className] ELSE << >>

\* registerMethod, inside its lock: the outcome and the map it leaves
registerMethodOverwriting(methods, className, methodName, sig) ==
    LET inner == MethodsAt(methods, className)
        stored == [m \in DOMAIN inner \cup {methodName} |->
                      IF m = methodName THEN sig ELSE inner[m]]
    IN  [ok |-> TRUE,
         methods |-> [c \in DOMAIN methods \cup {className} |->
                         IF c = className THEN stored ELSE methods[c]]]

registerMethod(methods, className, methodName, sig) ==
    LET inner == MethodsAt(methods, className)
        stored == [m \in DOMAIN inner \cup {methodName} |->
                      IF m = methodName THEN sig ELSE inner[m]]
    IN  IF methodName \in DOMAIN inner
        THEN [ok |-> FALSE,
              methods |-> [c \in DOMAIN methods \cup {className} |->
                              IF c = className THEN inner ELSE methods[c]]]
        ELSE [ok |-> TRUE,
              methods |-> [c \in DOMAIN methods \cup {className} |->
                              IF c = className THEN stored ELSE methods[c]]]

classExists(classes, className) ==
    IF className \in {"int", "boolean", "char"} THEN TRUE
    ELSE className \in classes

methodExists(methods, className, methodName) ==
    IF className \notin DOMAIN methods THEN FALSE
    ELSE methodName \in DOMAIN methods[className]

\* getSignature: found, or the lookup failure it throws
getSignature(methods, className, methodName) ==
    IF className \in DOMAIN methods /\ methodName \in DOMAIN methods[className]
    THEN [found |-> TRUE, sig |-> methods[className][methodName]]
    ELSE [found |-> FALSE, sig |-> Sig("", << >>, FALSE, 0, 0)]


\* ------------------------------------------------------------------------
\* Semantic analysis and code generation of one source file
\* ------------------------------------------------------------------------
\* analyseSubroutineCall for `Foo.main()`: a receiver that is no variable,
\* no arguments.  The error it raises, or "none".
analyseSubroutineCall(classes, methods, classNameOrVar, functionName) ==
    IF ~classExists(classes, classNameOrVar) THEN "UndefinedClass"
    ELSE IF ~methodExists(methods, classNameOrVar, functionName) THEN "MethodNotFound"
    ELSE LET sig == getSignature(methods, classNameOrVar, functionName).sig
         IN  IF ~sig.isStatic THEN "MethodAsStatic"
             ELSE IF Len(sig.parameters) # 0 THEN "ArgumentCount"
             ELSE "none"

\* analyseReturn for the `return;` / `return 0;` that ends the body of sub
analyseReturn(methods, currentClassName, sub) ==
    LET got == getSignature(methods, currentClassName, sub.name)
        hasExpression == sub.ret # "void"
    IN  IF ~got.found THEN "SignatureLookup"
        ELSE IF sub.kind = "constructor" THEN "ConstructorMustReturnThis"
        ELSE IF got.sig.returnType = "void"
             THEN (IF hasExpression THEN "VoidReturnsValue" ELSE "none")
             ELSE IF ~hasExpression THEN "MustReturnValue"
             ELSE IF got.sig.returnType \in {"int", "char"} THEN "none"
             ELSE "TypeMismatch"

\* analyseSubroutine: the statements of subroutine i, in order
analyseSubroutine(classes, methods, src, i) ==
    LET callError == IF i = 1 /\ src.call
                     THEN analyseSubroutineCall(classes, methods, "Foo", "main")
                     ELSE "none"
    IN  IF callError # "none" THEN callError
        ELSE analyseReturn(methods, src.cls, src.subs[i])

\* analyseClass: the first error over the subroutines in declaration
\* order, or "none"
RECURSIVE analyseFrom(_, _, _, _)
analyseFrom(classes, methods, src, i) ==
    IF i > Len(src.subs) THEN "none"
    ELSE LET e == analyseSubroutine(classes, methods, src, i)
         IN  IF e # "none" THEN e ELSE analyseFrom(classes, methods, src, i + 1)

analyseClass(classes, methods, src) == analyseFrom(classes, methods, src, 1)

\* the registry an analyse task leaves behind: it holds a const reference
analyzeJobWritingRegistry(reg, src) ==
    IF src.call
    THEN [reg EXCEPT !.methods =
            [c \in DOMAIN reg.methods \cup {"Foo"} |-> MethodsAt(reg.methods, c)]]
    ELSE reg

analyzeJobRegistry(reg, src) == reg

\* compileSubroutine: the VM lines of subroutine i
compileSubroutine(src, i) ==
    LET sub == src.subs[i]
        header == << <<"function", src.cls, sub.name, 0>> >>
        setup == IF sub.kind = "method"
                 THEN << <<"push", "argument", 0>>, <<"pop", "pointer", 0>> >>
                 ELSE IF sub.kind = "constructor"
                 THEN << <<"push", "constant", 0>>, <<"call", "Memory", "alloc", 1>>,
                         <<"pop", "pointer", 0>> >>
                 ELSE << >>
        callLines == IF i = 1 /\ src.call
                     THEN << <<"call", "Foo", "main", 0>>, <<"pop", "temp", 0>> >>
                     ELSE << >>
        returnLines == IF sub.ret = "void"
                       THEN << <<"push", "constant", 0>>, <<"return">> >>
                       ELSE << <<"push", "constant", 0>>, <<"return">> >>
    IN  header \o setup \o callLines \o returnLines

RECURSIVE compileFrom(_, _)
compileFrom(src, i) ==
    IF i > Len(src.subs) THEN << >>
    ELSE compileSubroutine(src, i) \o compileFrom(src, i + 1)

compileClass(src) == compileFrom(src, 1)

\* ------------------------------------------------------------------------
\* SymbolTable
\* ------------------------------------------------------------------------
VARIABLES
    classScope,       \* SymbolTable::classScope: name -> Symbol
    subRoutineScope,  \* SymbolTable::subRoutineScope: name -> Symbol
    indices,          \* SymbolTable::indices: kind -> next index
    nDefines,         \* number of define calls made so far
    symLast           \* the last call on the table and how it ended

symVars == <<classScope, subRoutineScope, indices, nDefines, symLast>>

VARIABLES
    lexSrc,        \* Tokenizer::src, a sequence of characters
    lexPos,        \* Tokenizer::pos, counted from 0
    lexLine,       \* Tokenizer::line
    lexColumn,     \* Tokenizer::column
    currentToken,  \* Tokenizer::currentToken
    peekToken,     \* Tokenizer::peekToken
    lexError,      \* the exception the tokenizer has thrown
    nAdvance,      \* number of advance calls made so far
    lexLast        \* the last call on the tokenizer: "new", "peek", "advance", or
                   \* "promote" for an advance that took the token peek fetched

lexVars == <<lexSrc, lexPos, lexLine, lexColumn, currentToken, peekToken, lexError, nAdvance, lexLast>>

VARIABLES
    exprTokens,    \* the tokens the Tokenizer hands the Parser, in order
    exprParse,     \* what Parser::parseExpression returned on them
    exprOut        \* the VM lines CodeGenerator::compileExpression wrote

exprVars == <<exprTokens, exprParse, exprOut>>

VARIABLES
    classNode,     \* the ClassNode handed to CodeGenerator::compileClass
    subIndex,      \* number of its subroutineDecs compiled so far
    labelCounter,  \* CodeGenerator::labelCounter
    symbolTable,   \* CodeGenerator::symbolTable
    vmOut          \* the VM lines written to CodeGenerator::writer so far

genVars == <<classNode, subIndex, labelCounter, symbolTable, vmOut>>

VARIABLES
    tmExpected,    \* the `expected` handed to SemanticAnalyser::checkTypeMatch
    tmActual,      \* the `actual` handed to it
    tmVerdict      \* "accepted" when it returned, "rejected" when it threw

typeVars == <<tmExpected, tmActual, tmVerdict>>

VARIABLES
    semSub,        \* the SubroutineDecNode handed to SemanticAnalyser::analyseSubroutine
    semVerdict     \* "accepted" when it returned, "rejected" when it threw

semVars == <<semSub, semVerdict>>

VARIABLES
    jackFile,      \* the file handed to the Tokenizer: its stem and its text
    parser,        \* the Parser: its current token, the Tokenizer's scanner
                   \* position, the registry it writes, and the error thrown
    parsePc        \* "new", "class" once parseClass returned, "done", "failed"

parseVars == <<jackFile, parser, parsePc>>

VARIABLES
    letStmt,       \* the LetStatementNode handed to CodeGenerator::compileLet
    machine0,      \* the memory of the target VM before the statement runs
    run            \* the VM running the lines written for it: the lines, the
                   \* position in them, the stack, pointer 1, temp 0, the heap

runVars == <<letStmt, machine0, run>>

\* the variables of the analyser, of the parser and of the VM on their own
laterVars == <<typeVars, semVars, parseVars, runVars>>

\* the state of the components a run of the driver does not show
toolVars == <<symVars, lexVars, exprVars, genVars, laterVars>>

SymbolKinds == {"STATIC", "FIELD", "ARG", "LCL"}
SymNames == {"x", "y"}
SymTypes == {"int", "Array"}

IsClassLevel(kind) == kind = "STATIC" \/ kind = "FIELD"

\* SymbolTable::lookup with the two scopes searched in the other order
lookupClassFirst(name) ==
    IF name \in DOMAIN classScope
    THEN [found |-> TRUE, symbol |-> classScope[name]]
    ELSE IF name \in DOMAIN subRoutineScope
    THEN [found |-> TRUE, symbol |-> subRoutineScope[name]]
    ELSE [found |-> FALSE,
          symbol |-> [type |-> "", kind |-> "NONE", index |-> -1, declLine |-> 0, declCol |-> 0]]

\* SymbolTable::lookup: the subroutine scope first, then the class scope
lookup(name) ==
    IF name \in DOMAIN subRoutineScope
    THEN [found |-> TRUE, symbol |-> subRoutineScope[name]]
    ELSE IF name \in DOMAIN classScope
    THEN [found |-> TRUE, symbol |-> classScope[name]]
    ELSE [found |-> FALSE,
          symbol |-> [type |-> "", kind |-> "NONE", index |-> -1, declLine |-> 0, declCol |-> 0]]

kindOf(name) == lookup(name).symbol.kind
typeOf(name) == lookup(name).symbol.type
indexOf(name) == lookup(name).symbol.index
varCount(kind) == indices[kind]

\* the table after construction
InitSym ==
    /\ classScope = << >>
    /\ subRoutineScope = << >>
    /\ indices = [k \in SymbolKinds |-> 0]
    /\ nDefines = 0
    /\ symLast = [op |-> "new", name |-> "", kind |-> "NONE", ok |-> TRUE]

Put(scope, name, symbol) ==
    [n \in DOMAIN scope \cup {name} |-> IF n = name THEN symbol ELSE scope[n]]

\* SymbolTable::define(name, type, kind, line, col)
define(name, type, kind, line, col) ==
    LET existing == lookup(name)
        collision == /\ existing.found
                     /\ IsClassLevel(kind) = IsClassLevel(existing.symbol.kind)
        symbol == [type |-> type, kind |-> kind, index |-> indices[kind],
                   declLine |-> line, declCol |-> col]
    IN  /\ nDefines' = nDefines + 1
        /\ symLast' = [op |-> "define", name |-> name, kind |-> kind, ok |-> ~collision]
        /\ IF collision
           THEN UNCHANGED <<classScope, subRoutineScope, indices>>
           ELSE /\ indices' = [indices EXCEPT ![kind] = @ + 1]
                /\ IF IsClassLevel(kind)
                   THEN /\ classScope' = Put(classScope, name, symbol)
                        /\ UNCHANGED subRoutineScope
                   ELSE /\ subRoutineScope' = Put(subRoutineScope, name, symbol)
                        /\ UNCHANGED classScope

\* SymbolTable::startSubroutine without the reset of the LCL counter
startSubroutineKeepingLocals ==
    /\ subRoutineScope' = << >>
    /\ indices' = [indices EXCEPT !["ARG"] = 0]
    /\ symLast' = [op |-> "startSubroutine", name |-> "", kind |-> "NONE", ok |-> TRUE,
                   cleared |-> DOMAIN subRoutineScope]
    /\ UNCHANGED <<classScope, nDefines>>

\* SymbolTable::startSubroutine
startSubroutine ==
    /\ subRoutineScope' = << >>
    /\ indices' = [indices EXCEPT !["ARG"] = 0, !["LCL"] = 0]
    /\ symLast' = [op |-> "startSubroutine", name |-> "", kind |-> "NONE", ok |-> TRUE,
                   cleared |-> DOMAIN subRoutineScope]
    /\ UNCHANGED <<classScope, nDefines>>

\* ------------------------------------------------------------------------
\* Tokenizer
\* ------------------------------------------------------------------------
\* std::isspace, std::isdigit and std::isalpha in the C locale
Spaces == {" ", "\t", "\n", "\r", "\f"}
Digits == {"0", "1", "2", "3", "4", "5", "6", "7", "8", "9"}
Letters ==
    { "a", "b", "c", "d", "e", "f", "g", "h", "i", "j", "k", "l", "m",
      "n", "o", "p", "q", "r", "s", "t", "u", "v", "w", "x", "y", "z",
      "A", "B", "C", "D", "E", "F", "G", "H", "I", "J", "K", "L", "M",
      "N", "O", "P", "Q", "R", "S", "T", "U", "V", "W", "X", "Y", "Z" }

\* the value of src[pos] - '0'
DigitVal(c) ==
    CASE c = "0" -> 0 [] c = "1" -> 1 [] c = "2" -> 2 [] c = "3" -> 3 [] c = "4" -> 4
      [] c = "5" -> 5 [] c = "6" -> 6 [] c = "7" -> 7 [] c = "8" -> 8 [] c = "9" -> 9

\* constexpr std::string_view symbols in nextToken
SymbolChars ==
    { "{", "}", "(", ")", "[", "]", ".", ",", ";", "+",
      "-", "*", "/", "&", "|", "<", ">", "=", "~" }

\* keywordMap of isKeywordString
KeywordMap ==
    { <<<<"c", "l", "a", "s", "s">>, "CLASS">>,
      <<<<"m", "e", "t", "h", "o", "d">>, "METHOD">>,
      <<<<"f", "u", "n", "c", "t", "i", "o", "n">>, "FUNCTION">>,
      <<<<"c", "o", "n", "s", "t", "r", "u", "c", "t", "o", "r">>, "CONSTRUCTOR">>,
      <<<<"i", "n", "t">>, "INT">>,
      <<<<"b", "o", "o", "l", "e", "a", "n">>, "BOOLEAN">>,
      <<<<"c", "h", "a", "r">>, "CHAR">>,
      <<<<"v", "o", "i", "d">>, "VOID">>,
      <<<<"v", "a", "r">>, "VAR">>,
      <<<<"s", "t", "a", "t", "i", "c">>, "STATIC">>,
      <<<<"f", "i", "e", "l", "d">>, "FIELD">>,
      <<<<"l", "e", "t">>, "LET">>,
      <<<<"d", "o">>, "DO">>,
      <<<<"i", "f">>, "IF">>,
      <<<<"e", "l", "s", "e">>, "ELSE">>,
      <<<<"w", "h", "i", "l", "e">>, "WHILE">>,
      <<<<"r", "e", "t", "u", "r", "n">>, "RETURN">>,
      <<<<"t", "r", "u", "e">>, "TRUE_">>,
      <<<<"f", "a", "l", "s", "e">>, "FALSE_">>,
      <<<<"n", "u", "l", "l">>, "NULL_">>,
      <<<<"t", "h", "i", "s">>, "THIS_">> }

isKeywordString(s) == \E e \in KeywordMap : e[1] = s
KeywordOf(s) == (CHOOSE e \in KeywordMap : e[1] = s)[2]

NoToken == [type |-> "none"]
EofToken(l, c) == [type |-> "END_OF_FILE", line |-> l, column |-> c]
TextToken(t, text, l, c) == [type |-> t, text |-> text, line |-> l, column |-> c]
IntToken(v, l, c) == [type |-> "INT_CONST", intVal |-> v, line |-> l, column |-> c]
KeywordToken(kw, l, c) == [type |-> "KEYWORD", keyword |-> kw, line |-> l, column |-> c]

NoLexError == [line |-> 0, column |-> 0, message |-> ""]
\* errorAt(errLine, errColumn, message)
errorAt(l, c, message) == [line |-> l, column |-> c, message |-> message]

\* src[pos]
At(s, p) == s[p + 1]

\* the scanner position <<pos, line, column>> after advanceChar
advanceChar(s, st) ==
    IF st.pos >= Len(s) THEN st
    ELSE LET c == At(s, st.pos)
         IN  IF c = "\n" THEN [pos |-> st.pos + 1, line |-> st.line + 1, column |-> 1]
             ELSE IF c = "\r" THEN [pos |-> st.pos + 1, line |-> st.line, column |-> st.column]
             ELSE [pos |-> st.pos + 1, line |-> st.line, column |-> st.column + 1]

\* the loop of a line comment: up to, not past, the end of the line
RECURSIVE skipLineComment(_, _)
skipLineComment(s, st) ==
    IF st.pos < Len(s) /\ At(s, st.pos) # "\n"
    THEN skipLineComment(s, advanceChar(s, st))
    ELSE st

\* the loop of a block comment: up to the closing star and slash
RECURSIVE skipBlockComment(_, _)
skipBlockComment(s, st) ==
    IF st.pos + 1 < Len(s) /\ ~(At(s, st.pos) = "*" /\ At(s, st.pos + 1) = "/")
    THEN skipBlockComment(s, advanceChar(s, st))
    ELSE st

\* skipWhitespaceAndComments: the scanner position it ends at and the error
\* it throws
RECURSIVE skipWhitespaceAndComments(_, _)
skipWhitespaceAndComments(s, st) ==
    IF st.pos >= Len(s) THEN [st |-> st, err |-> NoLexError]
    ELSE LET c == At(s, st.pos)
             two == advanceChar(s, advanceChar(s, st))
         IN  IF c \in Spaces
             THEN skipWhitespaceAndComments(s, advanceChar(s, st))
             ELSE IF c = "/" /\ st.pos + 1 < Len(s) /\ At(s, st.pos + 1) = "/"
             THEN skipWhitespaceAndComments(s, skipLineComment(s, two))
             ELSE IF c = "/" /\ st.pos + 1 < Len(s) /\ At(s, st.pos + 1) = "*"
             THEN LET e == skipBlockComment(s, two)
                  IN  IF e.pos + 1 >= Len(s)
                      THEN [st |-> e,
                            err |-> errorAt(e.line, e.column, "Unterminated block comment")]
                      ELSE skipWhitespaceAndComments(s, advanceChar(s, advanceChar(s, e)))
             ELSE [st |-> st, err |-> NoLexError]

\* the loop of readString: up to the closing quote, the end of the source or
\* a line end
RECURSIVE readStringBody(_, _)
readStringBody(s, st) ==
    IF st.pos < Len(s) /\ At(s, st.pos) # "\""
    THEN IF At(s, st.pos) = "\n" \/ At(s, st.pos) = "\r"
         THEN [st |-> st, newline |-> TRUE]
         ELSE readStringBody(s, advanceChar(s, st))
    ELSE [st |-> st, newline |-> FALSE]

readString(s, st, tokenline, tokencolumn) ==
    LET start == advanceChar(s, st)
        body == readStringBody(s, start)
        val == SubSeq(s, start.pos + 1, body.st.pos)
    IN  IF body.newline
        THEN [tok |-> NoToken, st |-> body.st,
              err |-> errorAt(tokenline, tokencolumn, "Newline in string")]
        ELSE IF body.st.pos >= Len(s)
        THEN [tok |-> NoToken, st |-> body.st,
              err |-> errorAt(tokenline, tokencolumn, "Unterminated string constant")]
        ELSE [tok |-> TextToken("STRING_CONST", val, tokenline, tokencolumn),
              st |-> advanceChar(s, body.st), err |-> NoLexError]

\* the largest integer constant of Jack
MaxIntConst == 32767

\* the loop of readNumber, with the overflow test made after the update
RECURSIVE readDigitsCheckingAfter(_, _, _)
readDigitsCheckingAfter(s, st, value) ==
    IF st.pos < Len(s) /\ At(s, st.pos) \in Digits
    THEN LET digit == DigitVal(At(s, st.pos))
         IN  IF value > MaxIntConst
             THEN [st |-> st, value |-> value, tooLarge |-> TRUE]
             ELSE readDigitsCheckingAfter(s, advanceChar(s, st), value * 10 + digit)
    ELSE [st |-> st, value |-> value, tooLarge |-> FALSE]

\* the loop of readNumber: the position it ends at, the accumulator, and
\* whether it threw
RECURSIVE readDigits(_, _, _)
readDigits(s, st, value) ==
    IF st.pos < Len(s) /\ At(s, st.pos) \in Digits
    THEN LET digit == DigitVal(At(s, st.pos))
         IN  IF value > 3276 \/ (value = 3276 /\ digit > 7)
             THEN [st |-> st, value |-> value, tooLarge |-> TRUE]
             ELSE readDigits(s, advanceChar(s, st), value * 10 + digit)
    ELSE [st |-> st, value |-> value, tooLarge |-> FALSE]

readNumber(s, st, tokenline, tokencolumn) ==
    LET r == readDigits(s, st, 0)
    IN  IF r.tooLarge
        THEN [tok |-> NoToken, st |-> r.st,
              err |-> errorAt(tokenline, tokencolumn, "Integer constant too large (max 32767)")]
        ELSE [tok |-> IntToken(r.value, tokenline, tokencolumn), st |-> r.st,
              err |-> NoLexError]

\* the loop of readIdentifierOrKeyword
RECURSIVE readWord(_, _)
readWord(s, st) ==
    IF st.pos < Len(s) /\ (At(s, st.pos) \in Letters \cup Digits \/ At(s, st.pos) = "_")
    THEN readWord(s, advanceChar(s, st))
    ELSE st

readIdentifierOrKeyword(s, st, tokenline, tokencolumn) ==
    LET end == readWord(s, st)
        text == SubSeq(s, st.pos + 1, end.pos)
    IN  [tok |-> IF isKeywordString(text)
                 THEN KeywordToken(KeywordOf(text), tokenline, tokencolumn)
                 ELSE TextToken("IDENTIFIER", text, tokenline, tokencolumn),
         st |-> end, err |-> NoLexError]

\* nextToken that leaves a symbol in the source
nextTokenKeepingSymbol(s, st) ==
    IF st.pos >= Len(s)
    THEN [tok |-> EofToken(st.line, st.column), st |-> st, err |-> NoLexError]
    ELSE LET c == At(s, st.pos)
         IN  IF c \in SymbolChars
             THEN [tok |-> TextToken("SYMBOL", <<c>>, st.line, st.column),
                   st |-> st, err |-> NoLexError]
             ELSE IF c = "\"" THEN readString(s, st, st.line, st.column)
             ELSE IF c \in Digits THEN readNumber(s, st, st.line, st.column)
             ELSE IF c \in Letters \/ c = "_"
             THEN readIdentifierOrKeyword(s, st, st.line, st.column)
             ELSE [tok |-> NoToken, st |-> st,
                   err |-> errorAt(st.line, st.column, "Unexpected character")]

nextToken(s, st) ==
    IF st.pos >= Len(s)
    THEN [tok |-> EofToken(st.line, st.column), st |-> st, err |-> NoLexError]
    ELSE LET c == At(s, st.pos)
         IN  IF c \in SymbolChars
             THEN [tok |-> TextToken("SYMBOL", <<c>>, st.line, st.column),
                   st |-> advanceChar(s, st), err |-> NoLexError]
             ELSE IF c = "\"" THEN readString(s, st, st.line, st.column)
             ELSE IF c \in Digits THEN readNumber(s, st, st.line, st.column)
             ELSE IF c \in Letters \/ c = "_"
             THEN readIdentifierOrKeyword(s, st, st.line, st.column)
             ELSE [tok |-> NoToken, st |-> st,
                   err |-> errorAt(st.line, st.column, "Unexpected character")]

fetchNext(s, st) ==
    LET skipped == skipWhitespaceAndComments(s, st)
    IN  IF skipped.err # NoLexError
        THEN [tok |-> NoToken, st |-> skipped.st, err |-> skipped.err]
        ELSE nextToken(s, skipped.st)

hasMoreTokens ==
    IF currentToken = NoToken THEN TRUE ELSE currentToken.type # "END_OF_FILE"

\* the tokenizer no call was made on, with no file loaded
LexAtRest ==
    /\ lexSrc = << >>
    /\ lexPos = 0
    /\ lexLine = 1
    /\ lexColumn = 1
    /\ currentToken = NoToken
    /\ peekToken = NoToken
    /\ lexError = NoLexError
    /\ nAdvance = 0
    /\ lexLast = "none"

\* Tokenizer::Tokenizer on a file holding one of the texts: loadFile, then
\* the first token is fetched
InitLex(texts) ==
    /\ lexSrc \in texts
    /\ LET r == fetchNext(lexSrc, [pos |-> 0, line |-> 1, column |-> 1])
       IN  /\ lexPos = r.st.pos
           /\ lexLine = r.st.line
           /\ lexColumn = r.st.column
           /\ currentToken = r.tok
           /\ lexError = r.err
    /\ peekToken = NoToken
    /\ nAdvance = 0
    /\ lexLast = "new"

\* Tokenizer::advance that drops a token fetched by peek
advanceRefetching ==
    /\ lexLast' = "advance"
    /\ nAdvance' = nAdvance + 1
    /\ UNCHANGED lexSrc
    /\ peekToken' = NoToken
    /\ IF ~hasMoreTokens
       THEN UNCHANGED <<lexPos, lexLine, lexColumn, currentToken, lexError>>
       ELSE LET r == fetchNext(lexSrc, [pos |-> lexPos, line |-> lexLine, column |-> lexColumn])
            IN  /\ lexPos' = r.st.pos
                /\ lexLine' = r.st.line
                /\ lexColumn' = r.st.column
                /\ lexError' = r.err
                /\ currentToken' = IF r.err # NoLexError THEN currentToken ELSE r.tok

\* Tokenizer::advance
advance ==
    /\ lexLast' = IF peekToken # NoToken THEN "promote" ELSE "advance"
    /\ nAdvance' = nAdvance + 1
    /\ UNCHANGED lexSrc
    /\ IF peekToken # NoToken
       THEN /\ currentToken' = peekToken
            /\ peekToken' = NoToken
            /\ UNCHANGED <<lexPos, lexLine, lexColumn, lexError>>
       ELSE IF ~hasMoreTokens
       THEN UNCHANGED <<lexPos, lexLine, lexColumn, currentToken, peekToken, lexError>>
       ELSE LET r == fetchNext(lexSrc, [pos |-> lexPos, line |-> lexLine, column |-> lexColumn])
            IN  /\ lexPos' = r.st.pos
                /\ lexLine' = r.st.line
                /\ lexColumn' = r.st.column
                /\ lexError' = r.err
                /\ currentToken' = IF r.err # NoLexError THEN currentToken ELSE r.tok
                /\ UNCHANGED peekToken

\* Tokenizer::peek
peek ==
    /\ lexLast' = "peek"
    /\ UNCHANGED <<lexSrc, currentToken, nAdvance>>
    /\ IF peekToken # NoToken
       THEN UNCHANGED <<lexPos, lexLine, lexColumn, peekToken, lexError>>
       ELSE LET r == fetchNext(lexSrc, [pos |-> lexPos, line |-> lexLine, column |-> lexColumn])
            IN  /\ lexPos' = r.st.pos
                /\ lexLine' = r.st.line
                /\ lexColumn' = r.st.column
                /\ lexError' = r.err
                /\ peekToken' = r.tok

\* ------------------------------------------------------------------------
\* Parser: expressions
\* ------------------------------------------------------------------------
\* keywordToString
keywordToString(kw) ==
    CASE kw = "CLASS" -> "class" [] kw = "METHOD" -> "method"
      [] kw = "FUNCTION" -> "function" [] kw = "CONSTRUCTOR" -> "constructor"
      [] kw = "INT" -> "int" [] kw = "CHAR" -> "char" [] kw = "BOOLEAN" -> "boolean"
      [] kw = "VOID" -> "void" [] kw = "VAR" -> "var" [] kw = "STATIC" -> "static"
      [] kw = "FIELD" -> "field" [] kw = "LET" -> "let" [] kw = "DO" -> "do"
      [] kw = "IF" -> "if" [] kw = "ELSE" -> "else" [] kw = "WHILE" -> "while"
      [] kw = "RETURN" -> "return" [] kw = "TRUE_" -> "true" [] kw = "FALSE_" -> "false"
      [] kw = "NULL_" -> "null" [] kw = "THIS_" -> "this"
      [] OTHER -> "<unknown>"

\* Token::getValue: the text of a TextToken, the spelling of a KeywordToken,
\* the empty string of an IntToken and of the EofToken
getValue(tok) ==
    IF tok.type \in {"IDENTIFIER", "STRING_CONST", "SYMBOL"} THEN tok.text
    ELSE IF tok.type = "KEYWORD" THEN keywordToString(tok.keyword)
    ELSE ""

\* Parser::currentToken once the parser has advanced over pos - 1 tokens of
\* toks; the tokenizer stays on its EofToken at the end
tokenAt(toks, pos) == IF pos <= Len(toks) THEN toks[pos] ELSE EofToken(1, Len(toks) + 1)

\* Parser::check(TokenType) and Parser::check(std::string_view)
checkType(toks, pos, type) == tokenAt(toks, pos).type = type
checkText(toks, pos, text) == getValue(tokenAt(toks, pos)) = text

\* the nodes of AST.h, positions left out
NoNode == [type |-> "none"]
IntegerLiteralNode(val) == [type |-> "INTEGER_LITERAL", value |-> val]
StringLiteralNode(val) == [type |-> "STRING_LITERAL", value |-> val]
KeywordLiteralNode(kw) == [type |-> "KEYWORD_LITERAL", value |-> kw]
BinaryOpNode(l, o, r) == [type |-> "BINARY_OP", left |-> l, op |-> o, right |-> r]
UnaryOpNode(o, t) == [type |-> "UNARY_OP", op |-> o, term |-> t]
CallNode(cv, fn, args) ==
    [type |-> "SUBROUTINE_CALL", classNameOrVar |-> cv, functionName |-> fn, arguments |-> args]
IdentifierNode(n, idx) == [type |-> "IDENTIFIER", name |-> n, indexExpr |-> idx]

\* what a parse function leaves: the node it returned and the position of
\* currentToken, or the syntax error errorAt threw
Parsed(node, pos) == [ok |-> TRUE, node |-> node, pos |-> pos]
SyntaxError(pos) == [ok |-> FALSE, node |-> NoNode, pos |-> pos]

BinaryOps == {"+", "-", "*", "/", "&", "|", "<", ">", "="}

\* Parser::isBinaryOp
isBinaryOp(toks, pos) ==
    IF tokenAt(toks, pos).type # "SYMBOL" THEN FALSE
    ELSE getValue(tokenAt(toks, pos)) \in BinaryOps

RECURSIVE parseExpression(_, _)
RECURSIVE parseExpressionLoopRightNested(_, _, _)
RECURSIVE parseExpressionLoop(_, _, _)
RECURSIVE parseTerm(_, _)
RECURSIVE parseExpressionListLoop(_, _, _)
RECURSIVE parseExpressionList(_, _)
RECURSIVE parseSubroutineCall(_, _)

\* the loop of parseExpression with the rest of the expression parsed as
\* the right operand
parseExpressionLoopRightNested(toks, left_term, pos) ==
    IF ~isBinaryOp(toks, pos) THEN Parsed(left_term, pos)
    ELSE LET op == getValue(tokenAt(toks, pos))
             right == parseExpression(toks, pos + 1)
         IN  IF ~right.ok THEN right
             ELSE Parsed(BinaryOpNode(left_term, op, right.node), right.pos)

\* the loop of parseExpression: while (isBinaryOp()) { ... }
parseExpressionLoop(toks, left_term, pos) ==
    IF ~isBinaryOp(toks, pos) THEN Parsed(left_term, pos)
    ELSE LET op == getValue(tokenAt(toks, pos))
             right_term == parseTerm(toks, pos + 1)
         IN  IF ~right_term.ok THEN right_term
             ELSE parseExpressionLoop(toks, BinaryOpNode(left_term, op, right_term.node),
                                      right_term.pos)

\* Parser::parseExpression
parseExpression(toks, pos) ==
    LET left_term == parseTerm(toks, pos)
    IN  IF ~left_term.ok THEN left_term
        ELSE parseExpressionLoop(toks, left_term.node, left_term.pos)

\* Parser::parseTerm.  The Tokenizer makes no FLOAT_CONST token.
parseTerm(toks, pos) ==
    LET tok == tokenAt(toks, pos)
    IN  IF checkType(toks, pos, "INT_CONST")
        THEN Parsed(IntegerLiteralNode(tok.intVal), pos + 1)
        ELSE IF checkType(toks, pos, "STRING_CONST")
        THEN Parsed(StringLiteralNode(getValue(tok)), pos + 1)
        ELSE IF tok.type = "KEYWORD"
        THEN (IF getValue(tok) \in {"true", "false", "null", "this"}
              THEN Parsed(KeywordLiteralNode(tok.keyword), pos + 1)
              ELSE SyntaxError(pos))
        ELSE IF checkType(toks, pos, "IDENTIFIER")
        THEN LET name == getValue(tok)
                 next == tokenAt(toks, pos + 1)
             IN  IF getValue(next) = "["
                 THEN LET exp == parseExpression(toks, pos + 2)
                      IN  IF ~exp.ok THEN exp
                          ELSE IF checkText(toks, exp.pos, "]")
                          THEN Parsed(IdentifierNode(name, exp.node), exp.pos + 1)
                          ELSE SyntaxError(exp.pos)
                 ELSE IF getValue(next) = "(" \/ getValue(next) = "."
                 THEN parseSubroutineCall(toks, pos)
                 ELSE Parsed(IdentifierNode(name, NoNode), pos + 1)
        ELSE IF checkText(toks, pos, "(")
        THEN LET expr == parseExpression(toks, pos + 1)
             IN  IF ~expr.ok THEN expr
                 ELSE IF checkText(toks, expr.pos, ")")
                 THEN Parsed(expr.node, expr.pos + 1)
                 ELSE SyntaxError(expr.pos)
        ELSE IF checkText(toks, pos, "-") \/ checkText(toks, pos, "~")
        THEN LET op == getValue(tok)
                 term == parseTerm(toks, pos + 1)
             IN  IF ~term.ok THEN term
                 ELSE Parsed(UnaryOpNode(op, term.node), term.pos)
        ELSE SyntaxError(pos)

\* the loop of parseExpressionList; node is the list so far
parseExpressionListLoop(toks, list, pos) ==
    IF checkText(toks, pos, ",")
    THEN LET e == parseExpression(toks, pos + 1)
         IN  IF ~e.ok THEN e
             ELSE parseExpressionListLoop(toks, Append(list, e.node), e.pos)
    ELSE IF checkText(toks, pos, ")") THEN Parsed(list, pos)
    ELSE SyntaxError(pos)

\* Parser::parseExpressionList
parseExpressionList(toks, pos) ==
    IF checkText(toks, pos, ")") THEN Parsed(<< >>, pos)
    ELSE LET e == parseExpression(toks, pos)
         IN  IF ~e.ok THEN e
             ELSE parseExpressionListLoop(toks, <<e.node>>, e.pos)

\* Parser::parseSubroutineCall
parseSubroutineCall(toks, pos) ==
    LET firstPart == getValue(tokenAt(toks, pos))
        dotted == checkText(toks, pos + 1, ".")
        classNameOrVar == IF dotted THEN firstPart ELSE ""
        subroutineName == IF dotted THEN getValue(tokenAt(toks, pos + 2)) ELSE firstPart
        open == IF dotted THEN pos + 3 ELSE pos + 1
    IN  IF ~checkType(toks, pos, "IDENTIFIER") THEN SyntaxError(pos)
        ELSE IF dotted /\ ~checkType(toks, pos + 2, "IDENTIFIER") THEN SyntaxError(pos + 2)
        ELSE IF ~checkText(toks, open, "(") THEN SyntaxError(open)
        ELSE LET agrs == parseExpressionList(toks, open + 1)
             IN  IF ~agrs.ok THEN agrs
                 ELSE IF ~checkText(toks, agrs.pos, ")") THEN SyntaxError(agrs.pos)
                 ELSE Parsed(CallNode(classNameOrVar, subroutineName, agrs.node),
                             agrs.pos + 1)

\* ------------------------------------------------------------------------
\* A SymbolTable held by value (the member of the CodeGenerator, the
\* localTable of the SemanticAnalyser)
\* ------------------------------------------------------------------------
\* SymbolTable::SymbolTable
NewSymbolTable ==
    [classScope |-> << >>, subRoutineScope |-> << >>,
     indices |-> [k \in SymbolKinds |-> 0]]

NoSymbol == [type |-> "", kind |-> "NONE", index |-> -1]

\* SymbolTable::lookup on table
lookupIn(table, name) ==
    IF name \in DOMAIN table.subRoutineScope THEN table.subRoutineScope[name]
    ELSE IF name \in DOMAIN table.classScope THEN table.classScope[name]
    ELSE NoSymbol

kindOfIn(table, name) == lookupIn(table, name).kind
typeOfIn(table, name) == lookupIn(table, name).type
indexOfIn(table, name) == lookupIn(table, name).index
varCountIn(table, kind) == table.indices[kind]

\* SymbolTable::define on table: the table it leaves, or the collision it
\* throws on
defineIn(table, name, type, kind) ==
    LET existing == lookupIn(table, name)
        collision == /\ existing.kind # "NONE"
                     /\ IsClassLevel(kind) = IsClassLevel(existing.kind)
        symbol == [type |-> type, kind |-> kind, index |-> table.indices[kind]]
        counted == [table EXCEPT !.indices[kind] = @ + 1]
    IN  IF collision THEN [ok |-> FALSE, table |-> table]
        ELSE IF IsClassLevel(kind)
        THEN [ok |-> TRUE,
              table |-> [counted EXCEPT !.classScope = Put(@, name, symbol)]]
        ELSE [ok |-> TRUE,
              table |-> [counted EXCEPT !.subRoutineScope = Put(@, name, symbol)]]

\* define for each name of a declaration list, in order; decls is a
\* sequence of <<name, type>>
RECURSIVE defineAllIn(_, _, _)
defineAllIn(table, decls, kind) ==
    IF decls = << >> THEN [ok |-> TRUE, table |-> table]
    ELSE LET d == defineIn(table, Head(decls)[1], Head(decls)[2], kind)
         IN  IF ~d.ok THEN d ELSE defineAllIn(d.table, Tail(decls), kind)

\* SymbolTable::startSubroutine on table, the LCL counter left as it is
startSubroutineInKeepingLocals(table) ==
    [table EXCEPT !.subRoutineScope = << >>, !.indices["ARG"] = 0]

\* SymbolTable::startSubroutine on table
startSubroutineIn(table) ==
    [table EXCEPT !.subRoutineScope = << >>, !.indices["ARG"] = 0, !.indices["LCL"] = 0]

\* ------------------------------------------------------------------------
\* SemanticAnalyser: expressions and calls
\* ------------------------------------------------------------------------
\* the type analyseExpression returns when error() has thrown
TypeError == "<error>"

\* checkTypeMatch: TRUE when it returns, FALSE when it throws
checkTypeMatch(expected, actual) ==
    \/ expected = actual
    \/ actual = "null"
    \/ expected = "char" /\ actual = "int"

RECURSIVE analyseExpression(_, _, _)
RECURSIVE analyseArguments(_, _, _, _, _)
RECURSIVE analyseCall(_, _, _)

\* step 5 of analyseSubroutineCall: argument i and those after it
analyseArguments(ctx, table, args, parameters, i) ==
    IF i > Len(args) THEN TRUE
    ELSE LET argType == analyseExpression(ctx, table, args[i])
         IN  /\ argType # TypeError
             /\ checkTypeMatch(parameters[i], argType)
             /\ analyseArguments(ctx, table, args, parameters, i + 1)

\* SemanticAnalyser::analyseSubroutineCall without step 3, its checks of
\* a static target against an instance and of a method against a class name
analyseCallAnyReceiver(ctx, table, call) ==
    LET implicit == call.classNameOrVar = ""
        type == typeOfIn(table, call.classNameOrVar)
        isVariable == ~implicit /\ type # ""
        targetClass == IF implicit THEN ctx.currentClassName
                       ELSE IF isVariable THEN type
                       ELSE call.classNameOrVar
        targetMethod == call.functionName
        found == methodExists(ctx.methods, targetClass, targetMethod)
        sig == getSignature(ctx.methods, targetClass, targetMethod).sig
    IN  IF implicit /\ ~found THEN TypeError
        ELSE IF implicit /\ ctx.currentSubroutineKind = "function" /\ ~sig.isStatic
        THEN TypeError
        ELSE IF ~implicit /\ ~isVariable /\ ~classExists(ctx.classes, call.classNameOrVar)
        THEN TypeError
        ELSE IF ~found THEN TypeError
        ELSE IF Len(call.arguments) # Len(sig.parameters) THEN TypeError
        ELSE IF ~analyseArguments(ctx, table, call.arguments, sig.parameters, 1)
        THEN TypeError
        ELSE sig.returnType

\* SemanticAnalyser::analyseSubroutineCall on a CallNode.  ctx holds the
\* registry and currentClassName, currentSubroutineName, currentSubroutineKind
analyseCall(ctx, table, call) ==
    LET implicit == call.classNameOrVar = ""
        type == typeOfIn(table, call.classNameOrVar)
        isVariable == ~implicit /\ type # ""
        targetClass == IF implicit THEN ctx.currentClassName
                       ELSE IF isVariable THEN type
                       ELSE call.classNameOrVar
        targetMethod == call.functionName
        found == methodExists(ctx.methods, targetClass, targetMethod)
        sig == getSignature(ctx.methods, targetClass, targetMethod).sig
        isMethodCall == IF implicit THEN ~sig.isStatic ELSE isVariable
    IN  IF implicit /\ ~found THEN TypeError
        ELSE IF implicit /\ ctx.currentSubroutineKind = "function" /\ ~sig.isStatic
        THEN TypeError
        ELSE IF ~implicit /\ ~isVariable /\ ~classExists(ctx.classes, call.classNameOrVar)
        THEN TypeError
        ELSE IF ~found THEN TypeError
        ELSE IF isMethodCall /\ sig.isStatic THEN TypeError
        ELSE IF ~isMethodCall /\ ~sig.isStatic THEN TypeError
        ELSE IF Len(call.arguments) # Len(sig.parameters) THEN TypeError
        ELSE IF ~analyseArguments(ctx, table, call.arguments, sig.parameters, 1)
        THEN TypeError
        ELSE sig.returnType

\* SemanticAnalyser::analyseExpression: the type of the expression, or
\* TypeError
analyseExpression(ctx, table, node) ==
    CASE node.type = "INTEGER_LITERAL" -> "int"
      [] node.type = "STRING_LITERAL" -> "String"
      [] node.type = "KEYWORD_LITERAL" ->
            (CASE node.value \in {"TRUE_", "FALSE_"} -> "boolean"
               [] node.value = "THIS_" -> ctx.currentClassName
               [] node.value = "NULL_" -> "null"
               [] OTHER -> "void")
      [] node.type = "IDENTIFIER" ->
            LET type == typeOfIn(table, node.name)
            IN  IF type = "" THEN TypeError
                ELSE IF node.indexExpr # NoNode
                THEN (IF type # "Array" THEN TypeError
                      ELSE IF analyseExpression(ctx, table, node.indexExpr) # "int"
                      THEN TypeError
                      ELSE "int")
                ELSE type
      [] node.type = "BINARY_OP" ->
            LET left == analyseExpression(ctx, table, node.left)
                right == analyseExpression(ctx, table, node.right)
            IN  IF left = TypeError \/ right = TypeError THEN TypeError
                ELSE IF node.op \in {"+", "-", "*", "/"}
                THEN (IF checkTypeMatch("int", left) /\ checkTypeMatch("int", right)
                      THEN "int" ELSE TypeError)
                ELSE IF node.op = "<" \/ node.op = ">"
                THEN (IF checkTypeMatch("int", left) /\ checkTypeMatch("int", right)
                      THEN "boolean" ELSE TypeError)
                ELSE IF node.op = "="
                THEN (IF left # right /\ left # "null" /\ right # "null"
                      THEN TypeError ELSE "boolean")
                ELSE IF node.op = "&" \/ node.op = "|"
                THEN (IF checkTypeMatch("boolean", left) /\ checkTypeMatch("boolean", right)
                      THEN "boolean" ELSE TypeError)
                ELSE "void"
      [] node.type = "UNARY_OP" ->
            LET inner == analyseExpression(ctx, table, node.term)
            IN  IF inner = TypeError THEN TypeError
                ELSE IF node.op = "-"
                THEN (IF checkTypeMatch("int", inner) THEN "int" ELSE TypeError)
                ELSE IF node.op = "~"
                THEN (IF checkTypeMatch("boolean", inner) THEN "boolean" ELSE TypeError)
                ELSE "void"
      [] node.type = "SUBROUTINE_CALL" -> analyseCall(ctx, table, node)
      [] OTHER -> "void"

\* ------------------------------------------------------------------------
\* VMWriter and CodeGenerator
\* ------------------------------------------------------------------------
\* the lines VMWriter writes; a function name is the pair <<class, subroutine>>
writePush(segment, index) == <<"push", segment, index>>
writePop(segment, index) == <<"pop", segment, index>>
writeArithmetic(command) == <<command>>
writeLabel(label) == <<"label", label>>
writeGoto(label) == <<"goto", label>>
writeIf(label) == <<"if-goto", label>>
writeCall(name, nArgs) == <<"call", name[1], name[2], nArgs>>
writeFunction(name, nLocals) == <<"function", name[1], name[2], nLocals>>
writeReturn == <<"return">>

\* VMWriter::writeStringConstant; the code of character c is kept as <<c>>
RECURSIVE appendChars(_)
appendChars(str) ==
    IF str = << >> THEN << >>
    ELSE <<writePush("constant", <<Head(str)>>), writeCall(<<"String", "appendChar">>, 2)>>
         \o appendChars(Tail(str))

writeStringConstant(str) ==
    <<writePush("constant", Len(str)), writeCall(<<"String", "new">>, 1)>>
    \o appendChars(str)

\* the switch from SymbolKind to Segment in compileTerm and compileLet
segmentOfKind(kind) ==
    CASE kind = "STATIC" -> "static"
      [] kind = "FIELD" -> "this"
      [] kind = "ARG" -> "argument"
      [] kind = "LCL" -> "local"
      [] OTHER -> "temp"

\* "L" + std::to_string(n)
LabelName(n) == <<"L", n>>

RECURSIVE compileExpression(_, _, _)
RECURSIVE compileTerm(_, _, _)
RECURSIVE compileArguments(_, _, _)
RECURSIVE compileSubroutineCall(_, _, _)

\* CodeGenerator::compileExpression: the lines it writes for node, with
\* symbolTable = table and currentClassName = cls
compileExpression(table, cls, node) ==
    IF node.type = "BINARY_OP"
    THEN compileExpression(table, cls, node.left)
         \o compileExpression(table, cls, node.right)
         \o (CASE node.op = "+" -> <<writeArithmetic("add")>>
               [] node.op = "-" -> <<writeArithmetic("sub")>>
               [] node.op = "*" -> <<writeCall(<<"Math", "multiply">>, 2)>>
               [] node.op = "/" -> <<writeCall(<<"Math", "divide">>, 2)>>
               [] node.op = "&" -> <<writeArithmetic("and")>>
               [] node.op = "|" -> <<writeArithmetic("or")>>
               [] node.op = "<" -> <<writeArithmetic("lt")>>
               [] node.op = ">" -> <<writeArithmetic("gt")>>
               [] node.op = "=" -> <<writeArithmetic("eq")>>
               [] OTHER -> << >>)
    ELSE IF node.type = "UNARY_OP"
    THEN compileTerm(table, cls, node.term)
         \o (IF node.op = "-" THEN <<writeArithmetic("neg")>>
             ELSE IF node.op = "~" THEN <<writeArithmetic("not")>>
             ELSE << >>)
    ELSE compileTerm(table, cls, node)

\* CodeGenerator::compileTerm
compileTerm(table, cls, node) ==
    CASE node.type = "INTEGER_LITERAL" -> <<writePush("constant", node.value)>>
      [] node.type = "STRING_LITERAL" -> writeStringConstant(node.value)
      [] node.type = "KEYWORD_LITERAL" ->
            (IF node.value = "TRUE_"
             THEN <<writePush("constant", 1), writeArithmetic("neg")>>
             ELSE IF node.value = "FALSE_" \/ node.value = "NULL_"
             THEN <<writePush("constant", 0)>>
             ELSE IF node.value = "THIS_" THEN <<writePush("pointer", 0)>>
             ELSE << >>)
      [] node.type = "IDENTIFIER" ->
            LET seg == segmentOfKind(kindOfIn(table, node.name))
                index == indexOfIn(table, node.name)
            IN  IF node.indexExpr # NoNode
                THEN <<writePush(seg, index)>>
                     \o compileExpression(table, cls, node.indexExpr)
                     \o <<writeArithmetic("add"), writePop("pointer", 1),
                          writePush("that", 0)>>
                ELSE <<writePush(seg, index)>>
      [] node.type = "SUBROUTINE_CALL" -> compileSubroutineCall(table, cls, node)
      [] OTHER -> << >>

\* the loop `for (const auto& arg : node.arguments) compileExpression(*arg)`
compileArguments(table, cls, args) ==
    IF args = << >> THEN << >>
    ELSE compileExpression(table, cls, Head(args)) \o compileArguments(table, cls, Tail(args))

\* CodeGenerator::compileSubroutineCall
compileSubroutineCall(table, cls, node) ==
    LET implicit == node.classNameOrVar = ""
        kind == kindOfIn(table, node.classNameOrVar)
        isVariable == ~implicit /\ kind # "NONE"
        seg == CASE kind = "STATIC" -> "static"
                 [] kind = "FIELD" -> "this"
                 [] kind = "ARG" -> "argument"
                 [] OTHER -> "local"
        receiver == IF implicit THEN <<writePush("pointer", 0)>>
                    ELSE IF isVariable
                    THEN <<writePush(seg, indexOfIn(table, node.classNameOrVar))>>
                    ELSE << >>
        funcName == IF implicit THEN <<cls, node.functionName>>
                    ELSE IF isVariable
                    THEN <<typeOfIn(table, node.classNameOrVar), node.functionName>>
                    ELSE <<node.classNameOrVar, node.functionName>>
        nArgs == (IF implicit \/ isVariable THEN 1 ELSE 0) + Len(node.arguments)
    IN  receiver \o compileArguments(table, cls, node.arguments)
        \o <<writeCall(funcName, nArgs)>>

\* ------------------------------------------------------------------------
\* Statements, subroutines and classes
\* ------------------------------------------------------------------------
\* the nodes of AST.h, positions left out
LetStatementNode(name, idx, val) ==
    [type |-> "LET_STATEMENT", varName |-> name, indexExpr |-> idx, valueExpr |-> val]
IfStatementNode(cond, ifStmts, elseStmts) ==
    [type |-> "IF_STATEMENT", condition |-> cond, ifStatements |-> ifStmts,
     elseStatements |-> elseStmts]
WhileStatementNode(cond, b) == [type |-> "WHILE_STATEMENT", condition |-> cond, body |-> b]
DoStatementNode(call) == [type |-> "DO_STATEMENT", callExpression |-> call]
ReturnStatementNode(expr) == [type |-> "RETURN_STATEMENT", expression |-> expr]
Parameter(t, n) == [type |-> t, name |-> n]
VarDecNode(t, names) == [type |-> t, varNames |-> names]
ClassVarDecNode(k, t, names) == [kind |-> k, type |-> t, varNames |-> names]
SubroutineDecNode(st, ret, n, params, vars, stmts) ==
    [subType |-> st, returnType |-> ret, name |-> n, parameters |-> params,
     localVars |-> vars, statements |-> stmts]
ClassNode(name, vars, subs) ==
    [className |-> name, classVars |-> vars, subroutineDecs |-> subs]

\* the <<name, type>> pairs a list of declarations defines, in order
RECURSIVE DeclaredNames(_)
DeclaredNames(decs) ==
    IF decs = << >> THEN << >>
    ELSE [i \in 1..Len(Head(decs).varNames) |-> <<Head(decs).varNames[i], Head(decs).type>>]
         \o DeclaredNames(Tail(decs))

ParameterNames(params) == [i \in 1..Len(params) |-> <<params[i].name, params[i].type>>]

\* the registry once the parser has read the class: registerClass, then
\* registerMethod for each subroutine; an already registered name is the
\* parser's error
RECURSIVE registerSubroutines(_, _, _)
registerSubroutines(methods, className, subs) ==
    IF subs = << >> THEN [ok |-> TRUE, methods |-> methods]
    ELSE LET sub == Head(subs)
             paramTypes == [i \in 1..Len(sub.parameters) |-> sub.parameters[i].type]
             isStatic == sub.subType = "function" \/ sub.subType = "constructor"
             r == registerMethod(methods, className, sub.name,
                                 Sig(sub.returnType, paramTypes, isStatic, 0, 0))
         IN  IF ~r.ok THEN r ELSE registerSubroutines(r.methods, className, Tail(subs))

registryAfterParse(node) ==
    LET r == registerSubroutines(loadStandardLibrary.methods, node.className,
                                 node.subroutineDecs)
    IN  [ok |-> r.ok,
         classes |-> registerClass(loadStandardLibrary.classes, node.className),
         methods |-> r.methods]

\* TRUE when classExists holds of the type of every declaration
RECURSIVE typesExist(_, _)
typesExist(classes, decls) ==
    IF decls = << >> THEN TRUE
    ELSE classExists(classes, Head(decls)[2]) /\ typesExist(classes, Tail(decls))

RECURSIVE analyseStatements(_, _, _)

\* SemanticAnalyser::analyseLet: TRUE when it returns, FALSE when it throws
analyseLet(ctx, table, node) ==
    LET varType == typeOfIn(table, node.varName)
        exprType == analyseExpression(ctx, table, node.valueExpr)
    IN  /\ kindOfIn(table, node.varName) # "NONE"
        /\ node.indexExpr # NoNode =>
              /\ varType = "Array"
              /\ analyseExpression(ctx, table, node.indexExpr) = "int"
        /\ exprType # TypeError
        /\ node.indexExpr = NoNode => checkTypeMatch(varType, exprType)

\* SemanticAnalyser::analyseIf
analyseIf(ctx, table, node) ==
    /\ analyseExpression(ctx, table, node.condition) = "boolean"
    /\ analyseStatements(ctx, table, node.ifStatements)
    /\ node.elseStatements # << >> => analyseStatements(ctx, table, node.elseStatements)

\* SemanticAnalyser::analyseDo
analyseDo(ctx, table, node) == analyseCall(ctx, table, node.callExpression) # TypeError

\* SemanticAnalyser::analyseWhile
analyseWhile(ctx, table, node) ==
    /\ analyseExpression(ctx, table, node.condition) = "boolean"
    /\ analyseStatements(ctx, table, node.body)

\* SemanticAnalyser::analyseReturn without its constructor rules
analyseReturnStatementAnyConstructor(ctx, table, node) ==
    LET requiredType ==
            getSignature(ctx.methods, ctx.currentClassName, ctx.currentSubroutineName)
                .sig.returnType
        hasExpression == node.expression # NoNode
    IN  IF requiredType = "void" THEN ~hasExpression
        ELSE /\ hasExpression
             /\ analyseExpression(ctx, table, node.expression) # TypeError
             /\ checkTypeMatch(requiredType,
                               analyseExpression(ctx, table, node.expression))

\* SemanticAnalyser::analyseReturn
analyseReturnStatement(ctx, table, node) ==
    LET requiredType ==
            getSignature(ctx.methods, ctx.currentClassName, ctx.currentSubroutineName)
                .sig.returnType
        hasExpression == node.expression # NoNode
    IN  /\ ctx.currentSubroutineKind = "constructor" =>
              /\ hasExpression
              /\ node.expression.type = "KEYWORD_LITERAL"
              /\ node.expression.value = "THIS_"
        /\ IF requiredType = "void" THEN ~hasExpression
           ELSE /\ hasExpression
                /\ analyseExpression(ctx, table, node.expression) # TypeError
                /\ checkTypeMatch(requiredType,
                                  analyseExpression(ctx, table, node.expression))

\* SemanticAnalyser::analyseStatements
analyseStatements(ctx, table, stmts) ==
    IF stmts = << >> THEN TRUE
    ELSE LET stmt == Head(stmts)
         IN  /\ CASE stmt.type = "LET_STATEMENT" -> analyseLet(ctx, table, stmt)
                  [] stmt.type = "DO_STATEMENT" -> analyseDo(ctx, table, stmt)
                  [] stmt.type = "IF_STATEMENT" -> analyseIf(ctx, table, stmt)
                  [] stmt.type = "WHILE_STATEMENT" -> analyseWhile(ctx, table, stmt)
                  [] stmt.type = "RETURN_STATEMENT" ->
                        analyseReturnStatement(ctx, table, stmt)
                  [] OTHER -> FALSE
             /\ analyseStatements(ctx, table, Tail(stmts))

\* the table of a subroutine: startSubroutine, `this` for a method, the
\* parameters, the local variables (SemanticAnalyser::analyseSubroutine
\* steps 1-4, CodeGenerator::compileSubroutine before writeFunction)
subroutineTable(table, className, sub) ==
    LET started == startSubroutineIn(table)
        withThis == IF sub.subType = "method"
                    THEN defineIn(started, "this", className, "ARG")
                    ELSE [ok |-> TRUE, table |-> started]
        withArgs == IF ~withThis.ok THEN withThis
                    ELSE defineAllIn(withThis.table, ParameterNames(sub.parameters), "ARG")
    IN  IF ~withArgs.ok THEN withArgs
        ELSE defineAllIn(withArgs.table, DeclaredNames(sub.localVars), "LCL")

\* step 1 of analyseClass and of compileClass: define for every name of
\* every class variable declaration
RECURSIVE defineClassVars(_, _)
defineClassVars(table, classVars) ==
    IF classVars = << >> THEN [ok |-> TRUE, table |-> table]
    ELSE LET var == Head(classVars)
             kind == IF var.kind = "STATIC" THEN "STATIC" ELSE "FIELD"
             d == defineAllIn(table, DeclaredNames(<<var>>), kind)
         IN  IF ~d.ok THEN d ELSE defineClassVars(d.table, Tail(classVars))

classTable(node) == defineClassVars(NewSymbolTable, node.classVars)

\* SemanticAnalyser::analyseSubroutine: TRUE when it returns
analyseSubroutineNode(reg, className, masterTable, sub) ==
    LET ctx == [classes |-> reg.classes, methods |-> reg.methods,
                currentClassName |-> className, currentSubroutineName |-> sub.name,
                currentSubroutineKind |-> sub.subType]
        localTable == subroutineTable(masterTable, className, sub)
    IN  /\ typesExist(reg.classes, ParameterNames(sub.parameters))
        /\ typesExist(reg.classes, DeclaredNames(sub.localVars))
        /\ localTable.ok
        /\ analyseStatements(ctx, localTable.table, sub.statements)

\* SemanticAnalyser::analyseClass on what the parser made of the file: TRUE
\* when the class reaches the code generator
analyseClassNode(node) ==
    LET reg == registryAfterParse(node)
        masterTable == classTable(node)
    IN  /\ reg.ok
        /\ \A i \in 1..Len(node.classVars) : classExists(reg.classes, node.classVars[i].type)
        /\ masterTable.ok
        /\ \A i \in 1..Len(node.subroutineDecs) :
              analyseSubroutineNode(reg, node.className, masterTable.table,
                                    node.subroutineDecs[i])

\* CodeGenerator::getUniqueLabel that leaves labelCounter as it is
getUniqueLabelNotCounting(counter) ==
    [label |-> LabelName(counter), labelCounter |-> counter]

\* CodeGenerator::getUniqueLabel: the label and the labelCounter it leaves
getUniqueLabel(counter) ==
    [label |-> LabelName(counter), labelCounter |-> counter + 1]

RECURSIVE compileStatements(_, _, _, _)

\* CodeGenerator::compileDo
compileDo(table, cls, node) ==
    compileSubroutineCall(table, cls, node.callExpression) \o <<writePop("temp", 0)>>

\* CodeGenerator::compileReturn
compileReturn(table, cls, node) ==
    (IF node.expression # NoNode THEN compileExpression(table, cls, node.expression)
     ELSE <<writePush("constant", 0)>>)
    \o <<writeReturn>>

\* CodeGenerator::compileLet
compileLet(table, cls, node) ==
    LET seg == segmentOfKind(kindOfIn(table, node.varName))
        index == indexOfIn(table, node.varName)
    IN  IF node.indexExpr # NoNode
        THEN <<writePush(seg, index)>>
             \o compileExpression(table, cls, node.indexExpr)
             \o <<writeArithmetic("add")>>
             \o compileExpression(table, cls, node.valueExpr)
             \o <<writePop("temp", 0), writePop("pointer", 1), writePush("temp", 0),
                  writePop("that", 0)>>
        ELSE compileExpression(table, cls, node.valueExpr) \o <<writePop(seg, index)>>

\* CodeGenerator::compileWhile: the lines written and the labelCounter left
compileWhile(table, cls, counter, node) ==
    LET labelExp == getUniqueLabel(counter)
        labelEnd == getUniqueLabel(labelExp.labelCounter)
        body == compileStatements(table, cls, labelEnd.labelCounter, node.body)
    IN  [out |-> <<writeLabel(labelExp.label)>>
                 \o compileExpression(table, cls, node.condition)
                 \o <<writeArithmetic("not"), writeIf(labelEnd.label)>>
                 \o body.out
                 \o <<writeGoto(labelExp.label), writeLabel(labelEnd.label)>>,
         labelCounter |-> body.labelCounter]

\* CodeGenerator::compileIf
compileIf(table, cls, counter, node) ==
    LET labelElse == getUniqueLabel(counter)
        labelEnd == getUniqueLabel(labelElse.labelCounter)
        ifPart == compileStatements(table, cls, labelEnd.labelCounter, node.ifStatements)
        elsePart == IF node.elseStatements # << >>
                    THEN compileStatements(table, cls, ifPart.labelCounter,
                                           node.elseStatements)
                    ELSE [out |-> << >>, labelCounter |-> ifPart.labelCounter]
    IN  [out |-> compileExpression(table, cls, node.condition)
                 \o <<writeArithmetic("not"), writeIf(labelElse.label)>>
                 \o ifPart.out
                 \o <<writeGoto(labelEnd.label), writeLabel(labelElse.label)>>
                 \o elsePart.out
                 \o <<writeLabel(labelEnd.label)>>,
         labelCounter |-> elsePart.labelCounter]

\* CodeGenerator::compileStatements
compileStatements(table, cls, counter, stmts) ==
    IF stmts = << >> THEN [out |-> << >>, labelCounter |-> counter]
    ELSE LET stmt == Head(stmts)
             first ==
                CASE stmt.type = "LET_STATEMENT" ->
                        [out |-> compileLet(table, cls, stmt), labelCounter |-> counter]
                  [] stmt.type = "IF_STATEMENT" -> compileIf(table, cls, counter, stmt)
                  [] stmt.type = "WHILE_STATEMENT" -> compileWhile(table, cls, counter, stmt)
                  [] stmt.type = "DO_STATEMENT" ->
                        [out |-> compileDo(table, cls, stmt), labelCounter |-> counter]
                  [] stmt.type = "RETURN_STATEMENT" ->
                        [out |-> compileReturn(table, cls, stmt), labelCounter |-> counter]
                  [] OTHER -> [out |-> << >>, labelCounter |-> counter]
             rest == compileStatements(table, cls, first.labelCounter, Tail(stmts))
         IN  [out |-> first.out \o rest.out, labelCounter |-> rest.labelCounter]

\* no expression handed to the parser
NoParse == [ok |-> FALSE, node |-> NoNode, pos |-> 0]
NoOutput == <<"none">>

ExprAtRest ==
    /\ exprTokens = << >>
    /\ exprParse = NoParse
    /\ exprOut = NoOutput

\* no class handed to the code generator
NoClass == [className |-> ""]

GenAtRest ==
    /\ classNode = NoClass
    /\ subIndex = 0
    /\ labelCounter = 0
    /\ symbolTable = NewSymbolTable
    /\ vmOut = << >>

\* checkTypeMatch not called
TypesAtRest ==
    /\ tmExpected = ""
    /\ tmActual = ""
    /\ tmVerdict = "none"

\* no subroutine handed to the analyser
NoSub == [subType |-> ""]

SemAtRest ==
    /\ semSub = NoSub
    /\ semVerdict = "none"

\* no file handed to a parser
NoFileText == [stem |-> "", text |-> << >>]
NoParser == [src |-> << >>]

ParserAtRest ==
    /\ jackFile = NoFileText
    /\ parser = NoParser
    /\ parsePc = "none"

\* no statement handed to a VM
NoMachine == [local |-> << >>]
NotRun == [status |-> "none"]

RunAtRest ==
    /\ letStmt = NoNode
    /\ machine0 = NoMachine
    /\ run = NotRun

LaterAtRest == TypesAtRest /\ SemAtRest /\ ParserAtRest /\ RunAtRest

\* ------------------------------------------------------------------------
\* The pipeline driver
\* ------------------------------------------------------------------------
VARIABLES
    files,        \* the input files, in command-line order
    phase,        \* position of main(): "start", "parse", "analyse", "generate", "exit"
    exitStatus,   \* the status main() returned, -1 while running
    reported,     \* the exception main() caught and printed
    classes,      \* GlobalRegistry::classes
    methods,      \* GlobalRegistry::methods
    mtx,          \* GlobalRegistry::mtx: 0, or the task holding it
    ppc,          \* position of each parse task
    psub,         \* index of the subroutine each parse task is at
    perr,         \* the exception each parse task ended with
    apc,          \* position of each analyse task
    aerr,         \* the exception each analyse task ended with
    gpc,          \* position of each generate task
    vm,           \* the .vm file next to each input
    barrierReg,   \* the registry as it was when the parse phase was joined
    firstFailed   \* the task of the current phase that failed first in time

driverVars == <<files, phase, exitStatus, reported, classes, methods, mtx, ppc, psub,
                perr, apc, aerr, gpc, vm, barrierReg, firstFailed>>

NoError == [task |-> 0, kind |-> "none"]
Error(t, kind) == [task |-> t, kind |-> kind]
NoFile == [exists |-> FALSE, lines |-> << >>]
Finished == {"done", "failed"}

InitDriver ==
    /\ files \in Inputs(MaxSubs)
    /\ phase = "start"
    /\ exitStatus = -1
    /\ reported = NoError
    /\ classes = loadStandardLibrary.classes
    /\ methods = loadStandardLibrary.methods
    /\ mtx = 0
    /\ ppc = [t \in Tasks |-> "idle"]
    /\ psub = [t \in Tasks |-> 1]
    /\ perr = [t \in Tasks |-> NoError]
    /\ apc = [t \in Tasks |-> "idle"]
    /\ aerr = [t \in Tasks |-> NoError]
    /\ gpc = [t \in Tasks |-> "idle"]
    /\ vm = [t \in Tasks |-> NoFile]
    /\ barrierReg = [classes |-> {}, methods |-> << >>]
    /\ firstFailed = 0


\* --- parse tasks (parseJob -> Parser::parse) ---------------------------

Fail(t) == IF firstFailed = 0 THEN t ELSE firstFailed

\* Parser::parseClass calls `globalRegistry.classExists(className)`, which
\* reads the class set with no lock taken.  A read made while another task
\* is inside registerClass is a data race with the insert: it may return
\* either answer.
CallClassExists(t) ==
    /\ ppc[t] = "classExists"
    /\ \E exists \in (IF \E u \in Tasks : ppc[u] = "inRegisterClass" THEN BOOLEAN
                      ELSE {classExists(classes, files[t].cls)}) :
          IF exists
          THEN /\ ppc' = [ppc EXCEPT ![t] = "failed"]
               /\ perr' = [perr EXCEPT ![t] = Error(t, "DuplicateClass")]
               /\ firstFailed' = Fail(t)
          ELSE /\ ppc' = [ppc EXCEPT ![t] = "registerClass"]
               /\ UNCHANGED <<perr, firstFailed>>
    /\ UNCHANGED <<files, phase, exitStatus, reported, classes, methods, mtx, psub,
                   apc, aerr, gpc, vm, barrierReg>>
    /\ UNCHANGED toolVars

\* registerClass takes the lock and inserts the class name
EnterRegisterClass(t) ==
    /\ ppc[t] = "registerClass"
    /\ mtx = 0
    /\ mtx' = t
    /\ classes' = registerClass(classes, files[t].cls)
    /\ ppc' = [ppc EXCEPT ![t] = "inRegisterClass"]
    /\ UNCHANGED <<files, phase, exitStatus, reported, methods, psub, perr,
                   apc, aerr, gpc, vm, barrierReg, firstFailed>>
    /\ UNCHANGED toolVars

\* registerClass returns and releases the lock; the parser reads on to the
\* next subroutine header, or to the end of the file or the syntax error in
\* the class body
ExitRegisterClass(t) ==
    /\ ppc[t] = "inRegisterClass"
    /\ mtx = t
    /\ mtx' = 0
    /\ IF Len(files[t].subs) > 0
       THEN /\ ppc' = [ppc EXCEPT ![t] = "registerMethod"]
            /\ UNCHANGED <<perr, firstFailed>>
       ELSE IF files[t].syntaxError
       THEN /\ ppc' = [ppc EXCEPT ![t] = "failed"]
            /\ perr' = [perr EXCEPT ![t] = Error(t, "SyntaxError")]
            /\ firstFailed' = Fail(t)
       ELSE /\ ppc' = [ppc EXCEPT ![t] = "done"]
            /\ UNCHANGED <<perr, firstFailed>>
    /\ UNCHANGED <<files, phase, exitStatus, reported, classes, methods, psub,
                   apc, aerr, gpc, vm, barrierReg>>
    /\ UNCHANGED toolVars

\* Parser::parseSubroutine has read a subroutine header: registerMethod
\* takes the lock, checks for a duplicate, stores the signature and
\* releases the lock, or throws; the parser reads on to the next subroutine
\* header or to the end of the file
RegisterMethod(t) ==
    /\ ppc[t] = "registerMethod"
    /\ mtx = 0
    /\ LET sub == files[t].subs[psub[t]]
           r == registerMethod(methods, files[t].cls, sub.name,
                               Sig(sub.ret, << >>, isStaticKind(sub.kind), psub[t], t))
       IN  /\ methods' = r.methods
           /\ IF ~r.ok
              THEN /\ ppc' = [ppc EXCEPT ![t] = "failed"]
                   /\ perr' = [perr EXCEPT ![t] = Error(t, "DuplicateSubroutine")]
                   /\ firstFailed' = Fail(t)
                   /\ UNCHANGED psub
              ELSE IF psub[t] = Len(files[t].subs)
              THEN /\ ppc' = [ppc EXCEPT ![t] = "done"]
                   /\ UNCHANGED <<psub, perr, firstFailed>>
              ELSE /\ psub' = [psub EXCEPT ![t] = psub[t] + 1]
                   /\ UNCHANGED <<ppc, perr, firstFailed>>
    /\ UNCHANGED <<files, phase, exitStatus, reported, classes, mtx,
                   apc, aerr, gpc, vm, barrierReg>>
    /\ UNCHANGED toolVars

\* --- main() ------------------------------------------------------------

\* the loop over a phase's futures has returned from every get()
JoinedFirstOnly(pcs) == pcs[1] \in Finished

Joined(pcs) == \A t \in Tasks : pcs[t] \in Finished

\* the exception the get() loop rethrows: the loop runs in file order and
\* stops at the first future holding one
LastError(pcs, errs) ==
    LET failed == {t \in Tasks : pcs[t] = "failed"}
    IN  errs[CHOOSE t \in failed : \A u \in failed : u <= t]

FirstError(pcs, errs) ==
    LET failed == {t \in Tasks : pcs[t] = "failed"}
    IN  errs[CHOOSE t \in failed : \A u \in failed : t <= u]

\* validateMainEntry: the error it throws, or "none"
validateMainEntryAnyKind(m) ==
    LET got == getSignature(m, "Main", "main")
    IN  IF ~got.found THEN "SignatureLookup"
        ELSE IF got.sig.returnType # "void" THEN "NotVoid"
        ELSE "none"

validateMainEntry(m) ==
    LET got == getSignature(m, "Main", "main")
    IN  IF ~got.found THEN "SignatureLookup"
        ELSE IF ~got.sig.isStatic THEN "NotStatic"
        ELSE IF got.sig.returnType # "void" THEN "NotVoid"
        ELSE "none"

\* the check for a file named Main.jack, then the launch of the parse tasks
Start ==
    /\ phase = "start"
    /\ IF \E t \in Tasks : files[t].cls = "Main"
       THEN /\ phase' = "parse"
            /\ ppc' = [t \in Tasks |-> "classExists"]
            /\ UNCHANGED <<exitStatus, reported>>
       ELSE /\ phase' = "exit"
            /\ exitStatus' = 1
            /\ reported' = Error(0, "MissingMainJack")
            /\ UNCHANGED ppc
    /\ UNCHANGED <<files, classes, methods, mtx, psub, perr,
                   apc, aerr, gpc, vm, barrierReg, firstFailed>>
    /\ UNCHANGED toolVars

\* the parse barrier, validateMainEntry and the launch of the analyse tasks
JoinParse ==
    /\ phase = "parse"
    /\ Joined(ppc)
    /\ barrierReg' = [classes |-> classes, methods |-> methods]
    /\ IF \E t \in Tasks : ppc[t] = "failed"
       THEN /\ phase' = "exit"
            /\ exitStatus' = 1
            /\ reported' = FirstError(ppc, perr)
            /\ UNCHANGED <<apc, firstFailed>>
       ELSE IF validateMainEntry(methods) # "none"
       THEN /\ phase' = "exit"
            /\ exitStatus' = 1
            /\ reported' = Error(0, validateMainEntry(methods))
            /\ UNCHANGED <<apc, firstFailed>>
       ELSE /\ phase' = "analyse"
            /\ apc' = [t \in Tasks |-> "ready"]
            /\ firstFailed' = 0
            /\ UNCHANGED <<exitStatus, reported>>
    /\ UNCHANGED <<files, classes, methods, mtx, ppc, psub, perr, aerr, gpc, vm>>
    /\ UNCHANGED toolVars

\* --- analyse tasks (analyzeJob) ----------------------------------------

StartAnalyse(t) ==
    /\ apc[t] = "ready"
    /\ apc' = [apc EXCEPT ![t] = "running"]
    /\ UNCHANGED <<files, phase, exitStatus, reported, classes, methods, mtx, ppc, psub,
                   perr, aerr, gpc, vm, barrierReg, firstFailed>>
    /\ UNCHANGED toolVars

FinishAnalyse(t) ==
    /\ apc[t] = "running"
    /\ LET e == analyseClass(classes, methods, files[t])
           r == analyzeJobRegistry([classes |-> classes, methods |-> methods], files[t])
       IN  /\ classes' = r.classes
           /\ methods' = r.methods
           /\ IF e = "none"
              THEN /\ apc' = [apc EXCEPT ![t] = "done"]
                   /\ UNCHANGED <<aerr, firstFailed>>
              ELSE /\ apc' = [apc EXCEPT ![t] = "failed"]
                   /\ aerr' = [aerr EXCEPT ![t] = Error(t, e)]
                   /\ firstFailed' = Fail(t)
    /\ UNCHANGED <<files, phase, exitStatus, reported, mtx, ppc, psub,
                   perr, gpc, vm, barrierReg>>
    /\ UNCHANGED toolVars

\* the analyse barrier and the launch of the generate tasks
JoinAnalyse ==
    /\ phase = "analyse"
    /\ Joined(apc)
    /\ IF \E t \in Tasks : apc[t] = "failed"
       THEN /\ phase' = "exit"
            /\ exitStatus' = 1
            /\ reported' = FirstError(apc, aerr)
            /\ UNCHANGED <<gpc, firstFailed>>
       ELSE /\ phase' = "generate"
            /\ gpc' = [t \in Tasks |-> "ready"]
            /\ firstFailed' = 0
            /\ UNCHANGED <<exitStatus, reported>>
    /\ UNCHANGED <<files, classes, methods, mtx, ppc, psub, perr, apc, aerr, vm,
                   barrierReg>>
    /\ UNCHANGED toolVars

\* --- generate tasks (compileJob) ---------------------------------------

\* std::ofstream out(outputPath) creates the file
StartGenerate(t) ==
    /\ gpc[t] = "ready"
    /\ gpc' = [gpc EXCEPT ![t] = "running"]
    /\ vm' = [vm EXCEPT ![t] = [exists |-> TRUE, lines |-> << >>]]
    /\ UNCHANGED <<files, phase, exitStatus, reported, classes, methods, mtx, ppc, psub,
                   perr, apc, aerr, barrierReg, firstFailed>>
    /\ UNCHANGED toolVars

FinishGenerate(t) ==
    /\ gpc[t] = "running"
    /\ gpc' = [gpc EXCEPT ![t] = "done"]
    /\ vm' = [vm EXCEPT ![t] = [exists |-> TRUE, lines |-> compileClass(files[t])]]
    /\ UNCHANGED <<files, phase, exitStatus, reported, classes, methods, mtx, ppc, psub,
                   perr, apc, aerr, barrierReg, firstFailed>>
    /\ UNCHANGED toolVars

JoinGenerate ==
    /\ phase = "generate"
    /\ Joined(gpc)
    /\ phase' = "exit"
    /\ exitStatus' = 0
    /\ UNCHANGED <<files, reported, classes, methods, mtx, ppc, psub,
                   perr, apc, aerr, gpc, vm, barrierReg, firstFailed>>
    /\ UNCHANGED toolVars

NextDriver ==
    \/ Start
    \/ JoinParse
    \/ JoinAnalyse
    \/ JoinGenerate
    \/ \E t \in Tasks : CallClassExists(t)
    \/ \E t \in Tasks : EnterRegisterClass(t)
    \/ \E t \in Tasks : ExitRegisterClass(t)
    \/ \E t \in Tasks : RegisterMethod(t)
    \/ \E t \in Tasks : StartAnalyse(t)
    \/ \E t \in Tasks : FinishAnalyse(t)
    \/ \E t \in Tasks : StartGenerate(t)
    \/ \E t \in Tasks : FinishGenerate(t)

vars == <<driverVars, symVars, lexVars, exprVars, genVars, laterVars>>

Init == InitDriver /\ InitSym /\ LexAtRest /\ ExprAtRest /\ GenAtRest /\ LaterAtRest
Next == NextDriver
Spec == Init /\ [][Next]_vars

\* ------------------------------------------------------------------------
\* The symbol table under arbitrary calls
\* ------------------------------------------------------------------------
\* the driver at rest, on a command line of empty Main classes
DriverAtRest ==
    /\ files = [t \in Tasks |-> [cls |-> "Main", subs |-> << >>,
                                 syntaxError |-> FALSE, call |-> FALSE]]
    /\ phase = "start"
    /\ exitStatus = -1
    /\ reported = NoError
    /\ classes = loadStandardLibrary.classes
    /\ methods = loadStandardLibrary.methods
    /\ mtx = 0
    /\ ppc = [t \in Tasks |-> "idle"]
    /\ psub = [t \in Tasks |-> 1]
    /\ perr = [t \in Tasks |-> NoError]
    /\ apc = [t \in Tasks |-> "idle"]
    /\ aerr = [t \in Tasks |-> NoError]
    /\ gpc = [t \in Tasks |-> "idle"]
    /\ vm = [t \in Tasks |-> NoFile]
    /\ barrierReg = [classes |-> {}, methods |-> << >>]
    /\ firstFailed = 0

Define ==
    /\ nDefines < MaxDefines
    /\ \E name \in SymNames, type \in SymTypes, kind \in SymbolKinds :
          define(name, type, kind, nDefines + 1, 0)
    /\ UNCHANGED <<driverVars, lexVars, exprVars, genVars, laterVars>>

StartSubroutine ==
    /\ startSubroutine
    /\ UNCHANGED <<driverVars, lexVars, exprVars, genVars, laterVars>>

InitSymSpec == DriverAtRest /\ InitSym /\ LexAtRest /\ ExprAtRest /\ GenAtRest /\ LaterAtRest
NextSym == Define \/ StartSubroutine
SpecSym == InitSymSpec /\ [][NextSym]_vars

\* ------------------------------------------------------------------------
\* The tokenizer under arbitrary advance and peek calls
\* ------------------------------------------------------------------------
\* longest source text
MaxSrcLen == 4
\* longest run of digits
MaxDigits == 6

\* characters of the source texts: letters that spell a keyword, a digit,
\* a line end, the two characters of the comment marks, and the quote
LexChars == {"d", "o", "1", "\n", "/", "*", "\""}
LexTexts(n) == SeqsUpTo(LexChars, n)

\* digits of the integer constants
NumChars == {"0", "2", "3", "6", "7", "8"}
NumTexts(n) == SeqsUpTo(NumChars, n) \ {<< >>}

Advance ==
    /\ lexError = NoLexError
    /\ nAdvance <= Len(lexSrc)
    /\ advance
    /\ UNCHANGED <<driverVars, symVars, exprVars, genVars, laterVars>>

Peek ==
    /\ lexError = NoLexError
    /\ peek
    /\ UNCHANGED <<driverVars, symVars, exprVars, genVars, laterVars>>

NextLex == Advance \/ Peek

InitLexSpec == DriverAtRest /\ InitSym /\ InitLex(LexTexts(MaxSrcLen)) /\ ExprAtRest /\ GenAtRest /\ LaterAtRest
SpecLex == InitLexSpec /\ [][NextLex]_vars

InitNumSpec == DriverAtRest /\ InitSym /\ InitLex(NumTexts(MaxDigits)) /\ ExprAtRest /\ GenAtRest /\ LaterAtRest
SpecNum == InitNumSpec /\ [][NextLex]_vars

\* the loop `while (tokenizer.hasMoreTokens()) { ...; tokenizer.advance(); }`
\* of the token test goes on calling advance: an advance that can be made
\* is made
\* longest source text of the loop
MaxLoopLen == 3

InitLexLoop ==
    /\ DriverAtRest /\ InitSym /\ InitLex(LexTexts(MaxLoopLen)) /\ ExprAtRest /\ GenAtRest
    /\ LaterAtRest
SpecLexFair == InitLexLoop /\ [][NextLex]_vars /\ WF_vars(Advance)

\* ------------------------------------------------------------------------
\* One expression through the parser, the analyser and the code generator
\* ------------------------------------------------------------------------
\* most tokens in the expression
MaxTokens == 5

\* spellings of the tokens: a variable, an integer constant, two binary
\* operators of which one is also unary, the other unary operator, and
\* the parentheses
ExprSpellings == {"x", "1", "=", "-", "~", "(", ")"}
ExprTexts(n) == SeqsUpTo(ExprSpellings, n) \ {<< >>}

\* the token the Tokenizer makes of spelling c at column col
ExprToken(c, col) ==
    IF c = "x" THEN TextToken("IDENTIFIER", c, 1, col)
    ELSE IF c = "1" THEN IntToken(1, 1, col)
    ELSE TextToken("SYMBOL", c, 1, col)

ExprTokensOf(text) == [i \in 1..Len(text) |-> ExprToken(text[i], i)]

\* the expression stands in `function int main()` of class Main, after
\* `var int x;`
ExprTable == defineIn(startSubroutineIn(NewSymbolTable), "x", "int", "LCL").table

ExprContext ==
    [classes |-> loadStandardLibrary.classes, methods |-> loadStandardLibrary.methods,
     currentClassName |-> "Main", currentSubroutineName |-> "main",
     currentSubroutineKind |-> "function"]

\* the whole token sequence is one expression
ParsedWhole == exprParse.ok /\ exprParse.pos = Len(exprTokens) + 1

InitExpr ==
    /\ \E text \in ExprTexts(MaxTokens) : exprTokens = ExprTokensOf(text)
    /\ exprParse = NoParse
    /\ exprOut = NoOutput

ParseExpression ==
    /\ exprParse = NoParse
    /\ exprParse' = parseExpression(exprTokens, 1)
    /\ UNCHANGED <<exprTokens, exprOut>>
    /\ UNCHANGED <<driverVars, symVars, lexVars, genVars, laterVars>>

\* the code generator runs on what the analyser accepted
CompileExpression ==
    /\ ParsedWhole
    /\ exprOut = NoOutput
    /\ analyseExpression(ExprContext, ExprTable, exprParse.node) # TypeError
    /\ exprOut' = compileExpression(ExprTable, "Main", exprParse.node)
    /\ UNCHANGED <<exprTokens, exprParse>>
    /\ UNCHANGED <<driverVars, symVars, lexVars, genVars, laterVars>>

NextExpr == ParseExpression \/ CompileExpression
InitExprSpec == DriverAtRest /\ InitSym /\ LexAtRest /\ InitExpr /\ GenAtRest /\ LaterAtRest
SpecExpr == InitExprSpec /\ [][NextExpr]_vars

\* ------------------------------------------------------------------------
\* The code generator on one class
\* ------------------------------------------------------------------------
\* most subroutines in the class
MaxGenSubs == 2
\* most local variables of a subroutine
MaxLocals == 2

\* names of the subroutines, by position in the class
SubNames == <<"f", "g", "h", "k">>
\* names of the local variables, by position
LocalNames == <<"a", "b", "c", "d">>

\* class variables of every class: `static Main v; field int a;`
GenClassVars ==
    <<ClassVarDecNode("STATIC", "Main", <<"v">>), ClassVarDecNode("FIELD", "int", <<"a">>)>>

\* `return;`, and `return this;` in a constructor
ReturnOf(subType) ==
    IF subType = "constructor" THEN ReturnStatementNode(KeywordLiteralNode("THIS_"))
    ELSE ReturnStatementNode(NoNode)

SubTypes == {"function", "method", "constructor"}
ParameterLists == {<< >>, <<Parameter("int", "p")>>}

\* subroutine i with the local variables locals and the statements stmts
\* before its return
SubOf(i, subType, params, locals, stmts) ==
    SubroutineDecNode(subType, IF subType = "constructor" THEN "Main" ELSE "void",
                      SubNames[i], params, locals, Append(stmts, ReturnOf(subType)))

\* calls: without a receiver, on the class, on the variable v; of any
\* subroutine of the class; with no argument or with one
GenCalls ==
    {CallNode(cv, SubNames[t], args) :
        cv \in {"", "Main", "v"}, t \in 1..MaxGenSubs,
        args \in {<< >>, <<IntegerLiteralNode(1)>>}}

\* a subroutine of any kind, with or without a parameter and an empty body
BareSubs(i) == {SubOf(i, st, ps, << >>, << >>) : st \in SubTypes, ps \in ParameterLists}

\* a subroutine without parameters whose body is one do statement
CallSubs(i) ==
    {SubOf(i, st, << >>, << >>, <<DoStatementNode(c)>>) : st \in SubTypes, c \in GenCalls}

\* if and while statements on the condition `true`, nested up to two deep
Halt == DoStatementNode(CallNode("Sys", "halt", << >>))
TrueNode == KeywordLiteralNode("TRUE_")
EmptyWhile == WhileStatementNode(TrueNode, << >>)
EmptyIf == IfStatementNode(TrueNode, << >>, << >>)
FlowStmts1 == {EmptyWhile, EmptyIf, IfStatementNode(TrueNode, <<Halt>>, <<Halt>>)}
FlowStmts2 ==
    {WhileStatementNode(TrueNode, <<s>>) : s \in FlowStmts1}
    \cup {IfStatementNode(TrueNode, <<s>>, << >>) : s \in FlowStmts1}
    \cup {IfStatementNode(TrueNode, <<EmptyWhile>>, <<EmptyWhile>>)}
FlowBodies ==
    {<<s>> : s \in FlowStmts2}
    \cup {<<s, t>> : s \in {EmptyWhile, EmptyIf}, t \in {EmptyWhile, EmptyIf}}

\* a function whose body is if and while statements
FlowSubs(i) == {SubOf(i, "function", << >>, << >>, b) : b \in FlowBodies}

\* `var int a, b, ...;` with n names, and the same names in two declarations
LocalDecls(n) ==
    {<<VarDecNode("int", SubSeq(LocalNames, 1, n))>>}
    \cup {<<VarDecNode("int", SubSeq(LocalNames, 1, m)),
            VarDecNode("boolean", SubSeq(LocalNames, m + 1, n))>> : m \in 1..(n - 1)}

\* a function without parameters or a method with one, with one to
\* MaxLocals local variables, which starts with `let a = 1;`
LocalSubs(i) ==
    {SubOf(i, k[1], k[2], locals,
           <<LetStatementNode("a", NoNode, IntegerLiteralNode(1))>>) :
        k \in {<<"function", << >> >>, <<"method", <<Parameter("int", "p")>> >>},
        locals \in UNION {LocalDecls(n) : n \in 1..MaxLocals}}

FirstSubs == CallSubs(1) \cup BareSubs(1) \cup FlowSubs(1) \cup LocalSubs(1)
LaterSubs(i) == BareSubs(i) \cup FlowSubs(i) \cup LocalSubs(i)

RECURSIVE SubLists(_)
SubLists(n) ==
    IF n = 1 THEN {<<s>> : s \in FirstSubs}
    ELSE SubLists(n - 1)
         \cup {Append(q, s) : q \in {r \in SubLists(n - 1) : Len(r) = n - 1},
                              s \in LaterSubs(n)}

GenClasses(n) == {ClassNode("Main", GenClassVars, subs) : subs \in SubLists(n)}

\* the analyser accepted the class, and compileClass has not yet run
InitGen ==
    /\ classNode \in GenClasses(MaxGenSubs)
    /\ subIndex = -1
    /\ labelCounter = 0
    /\ symbolTable = NewSymbolTable
    /\ vmOut = << >>

\* CodeGenerator::compileClass up to its loop over the subroutines; the
\* driver starts it only on a class the analyser accepted
CompileClass ==
    /\ subIndex = -1
    /\ analyseClassNode(classNode)
    /\ subIndex' = 0
    /\ symbolTable' = classTable(classNode).table
    /\ UNCHANGED <<classNode, labelCounter, vmOut>>
    /\ UNCHANGED <<driverVars, symVars, lexVars, exprVars, laterVars>>

\* CodeGenerator::compileSubroutine on the next subroutine of the class
CompileSubroutine ==
    /\ subIndex >= 0
    /\ subIndex < Len(classNode.subroutineDecs)
    /\ LET node == classNode.subroutineDecs[subIndex + 1]
           currentClassName == classNode.className
           table == subroutineTable(symbolTable, currentClassName, node).table
           nLocals == varCountIn(table, "LCL")
           setup == IF node.subType = "constructor"
                    THEN <<writePush("constant", varCountIn(table, "FIELD")),
                           writeCall(<<"Memory", "alloc">>, 1), writePop("pointer", 0)>>
                    ELSE IF node.subType = "method"
                    THEN <<writePush("argument", 0), writePop("pointer", 0)>>
                    ELSE << >>
           body == compileStatements(table, currentClassName, labelCounter, node.statements)
       IN  /\ symbolTable' = table
           /\ labelCounter' = body.labelCounter
           /\ vmOut' = vmOut \o <<writeFunction(<<currentClassName, node.name>>, nLocals)>>
                             \o setup \o body.out
    /\ subIndex' = subIndex + 1
    /\ UNCHANGED classNode
    /\ UNCHANGED <<driverVars, symVars, lexVars, exprVars, laterVars>>

NextGen == CompileClass \/ CompileSubroutine
InitGenSpec == DriverAtRest /\ InitSym /\ LexAtRest /\ ExprAtRest /\ InitGen /\ LaterAtRest
SpecGen == InitGenSpec /\ [][NextGen]_vars

\* ------------------------------------------------------------------------
\* Properties of the driver and of the registry
\* ------------------------------------------------------------------------
AllFinished(pcs) == \A t \in Tasks : pcs[t] \in {"done", "failed"}

\* the registry holds Main.main, static, returning void
HasStaticVoidMain ==
    /\ "Main" \in DOMAIN methods
    /\ "main" \in DOMAIN methods["Main"]
    /\ methods["Main"]["main"].isStatic
    /\ methods["Main"]["main"].returnType = "void"

FirstFailedInOrder(pcs) ==
    CHOOSE t \in Tasks : pcs[t] = "failed" /\ \A u \in Tasks : pcs[u] = "failed" => t <= u

\* C1: no analyse task is launched before every parse task has finished and
\* the registry holds a valid Main.main, and no generate task is launched
\* before every analyse task has finished
C1_PhaseBarriers ==
    /\ (\E t \in Tasks : apc[t] # "idle") => (AllFinished(ppc) /\ HasStaticVoidMain)
    /\ (\E t \in Tasks : gpc[t] # "idle") => AllFinished(apc)

\* a run in which tasks of all three phases have run
C1_Witness ==
    /\ \E t \in Tasks : gpc[t] = "running"
    /\ \E t \in Tasks : gpc[t] = "done"

\* C2: once a parse task has failed, or the parse phase has ended without a
\* static void Main.main in the registry, or an analyse task has failed, no
\* generate task exists, no .vm file exists, and the exit status is 1
C2_FailureWritesNothing ==
    LET parseFailed == \E t \in Tasks : ppc[t] = "failed"
        noEntryPoint == AllFinished(ppc) /\ ~HasStaticVoidMain
        analyseFailed == \E t \in Tasks : apc[t] = "failed"
    IN  (parseFailed \/ noEntryPoint \/ analyseFailed) =>
            /\ \A t \in Tasks : gpc[t] = "idle" /\ ~vm[t].exists
            /\ phase = "exit" => exitStatus = 1

\* the driver has exited on a Main.main that is registered but is a method
C2_Witness ==
    /\ phase = "exit"
    /\ exitStatus = 1
    /\ \A t \in Tasks : ppc[t] = "done"
    /\ "Main" \in DOMAIN methods
    /\ "main" \in DOMAIN methods["Main"]
    /\ ~methods["Main"]["main"].isStatic

\* C3: when tasks of a phase have failed, the driver exits with status 1
\* and reports the exception of the failed task that is first in file order
C3_FirstErrorInFileOrder ==
    phase = "exit" =>
        /\ (\E t \in Tasks : ppc[t] = "failed") =>
               (exitStatus = 1 /\ reported = perr[FirstFailedInOrder(ppc)])
        /\ (\E t \in Tasks : apc[t] = "failed") =>
               (exitStatus = 1 /\ reported = aerr[FirstFailedInOrder(apc)])

\* two analyse tasks failed, the one that is later in file order first
C3_Witness ==
    /\ phase = "exit"
    /\ apc[1] = "failed"
    /\ apc[2] = "failed"
    /\ firstFailed = 2

\* --- the run in which each task runs to its end before the next starts ---
RECURSIVE SeqRegisterSubs(_, _, _, _)
SeqRegisterSubs(m, src, t, i) ==
    IF i > Len(src.subs) THEN [methods |-> m, err |-> NoError]
    ELSE LET sub == src.subs[i]
             r == registerMethod(m, src.cls, sub.name,
                                 Sig(sub.ret, << >>, isStaticKind(sub.kind), i, t))
         IN  IF r.ok THEN SeqRegisterSubs(r.methods, src, t, i + 1)
             ELSE [methods |-> r.methods, err |-> Error(t, "DuplicateSubroutine")]

SeqParseOne(reg, src, t) ==
    IF classExists(reg.classes, src.cls)
    THEN [classes |-> reg.classes, methods |-> reg.methods,
          err |-> Error(t, "DuplicateClass")]
    ELSE LET r == SeqRegisterSubs(reg.methods, src, t, 1)
         IN  [classes |-> registerClass(reg.classes, src.cls), methods |-> r.methods,
              err |-> IF r.err # NoError THEN r.err
                      ELSE IF src.syntaxError THEN Error(t, "SyntaxError")
                      ELSE NoError]

\* the registry and the parse errors after files 1..n were parsed in order
RECURSIVE SeqParse(_, _)
SeqParse(f, n) ==
    IF n = 0
    THEN [classes |-> loadStandardLibrary.classes, methods |-> loadStandardLibrary.methods,
          errs |-> << >>]
    ELSE LET before == SeqParse(f, n - 1)
             one == SeqParseOne(before, f[n], n)
         IN  [classes |-> one.classes, methods |-> one.methods,
              errs |-> Append(before.errs, one.err)]

FirstOf(errs) ==
    errs[CHOOSE t \in DOMAIN errs :
            errs[t] # NoError /\ \A u \in DOMAIN errs : errs[u] # NoError => t <= u]

SeqOutcome(f) ==
    LET nothing == [t \in Tasks |-> NoFile]
        parsed == SeqParse(f, NumFiles)
        entry == validateMainEntry(parsed.methods)
        analysed == [t \in Tasks |->
                        LET e == analyseClass(parsed.classes, parsed.methods, f[t])
                        IN  IF e = "none" THEN NoError ELSE Error(t, e)]
    IN  IF ~\E t \in Tasks : f[t].cls = "Main"
        THEN [status |-> 1, reported |-> Error(0, "MissingMainJack"), vm |-> nothing]
        ELSE IF \E t \in Tasks : parsed.errs[t] # NoError
        THEN [status |-> 1, reported |-> FirstOf(parsed.errs), vm |-> nothing]
        ELSE IF entry # "none"
        THEN [status |-> 1, reported |-> Error(0, entry), vm |-> nothing]
        ELSE IF \E t \in Tasks : analysed[t] # NoError
        THEN [status |-> 1, reported |-> FirstOf(analysed), vm |-> nothing]
        ELSE [status |-> 0, reported |-> NoError,
              vm |-> [t \in Tasks |-> [exists |-> TRUE, lines |-> compileClass(f[t])]]]

\* C4: the outcome of a run (exit status, reported error, .vm files) does
\* not depend on the interleaving: it is the outcome of the run in which
\* the tasks of each phase run one after the other in file order
C4_OutcomeIndependentOfInterleaving ==
    phase = "exit" =>
        [status |-> exitStatus, reported |-> reported, vm |-> vm] = SeqOutcome(files)

\* the parse task has passed registerClass
Registered(t) ==
    \/ ppc[t] \in {"inRegisterClass", "registerMethod", "done"}
    \/ ppc[t] = "failed" /\ perr[t].kind # "DuplicateClass"

\* C5: two parse tasks whose files declare the same class never both
\* get past registerClass, and when both have finished one of them has
\* failed with the duplicate-class error
C5_DuplicateClassDetected ==
    \A t, u \in Tasks :
        (t # u /\ files[t].cls = files[u].cls) =>
            /\ ~(Registered(t) /\ Registered(u))
            /\ (ppc[t] \in Finished /\ ppc[u] \in Finished) =>
                   (perr[t].kind = "DuplicateClass" \/ perr[u].kind = "DuplicateClass")

\* C6: no parse task reads the class set or the subroutine map while
\* another parse task is inside registerClass or registerMethod
C6_ReadsExcludeWrites ==
    [][ \A t \in Tasks :
            (ppc[t] = "classExists" /\ ppc'[t] # "classExists") =>
                \A u \in Tasks \ {t} : ppc[u] # "inRegisterClass"
      ]_vars

Present(m, c, n) == c \in DOMAIN m /\ n \in DOMAIN m[c]

\* C7: a registerMethod call for a pair (class, name) already in the map
\* fails; one for a new pair succeeds and stores its signature; and no step
\* removes or changes a stored signature
C7_FirstRegistrationWins ==
    [][ /\ \A t \in Tasks :
              (ppc[t] = "registerMethod" /\ (ppc'[t] # ppc[t] \/ psub'[t] # psub[t])) =>
                  LET c == files[t].cls
                      sub == files[t].subs[psub[t]]
                  IN  IF Present(methods, c, sub.name)
                      THEN perr'[t].kind = "DuplicateSubroutine"
                      ELSE /\ perr'[t] = NoError
                           /\ Present(methods', c, sub.name)
                           /\ methods'[c][sub.name] =
                                  Sig(sub.ret, << >>, isStaticKind(sub.kind), psub[t], t)
        /\ methods' # methods =>
              \A c \in DOMAIN methods : \A n \in DOMAIN methods[c] :
                  Present(methods', c, n) /\ methods'[c][n] = methods[c][n]
      ]_vars

\* a registration was refused whose return type or kind differs from the
\* stored one
C7_Witness ==
    \E t \in Tasks :
        /\ ppc[t] = "failed"
        /\ perr[t].kind = "DuplicateSubroutine"
        /\ LET sub == files[t].subs[psub[t]]
               stored == methods[files[t].cls][sub.name]
           IN  stored.returnType # sub.ret \/ stored.isStatic # isStaticKind(sub.kind)

TypeNames == {"int", "char", "boolean", "void", "Main", "Foo", "Bar", "Math", "Array"}

\* C8: classExists is true exactly for the registered classes and for
\* int, char, boolean and void
C8_ClassExistsExact ==
    \A n \in TypeNames :
        classExists(classes, n) <=> (n \in classes \/ n \in {"int", "char", "boolean", "void"})

\* C9: from the parse barrier on, the class set and the subroutine map are
\* what they were at the barrier
C9_RegistryFrozenAfterParse ==
    (AllFinished(ppc) /\ phase # "parse") =>
        (classes = barrierReg.classes /\ methods = barrierReg.methods)

\* an analyse task that looked Foo.main up has finished
C9_Witness ==
    \E t \in Tasks : files[t].call /\ apc[t] \in {"done", "failed"}


\* ------------------------------------------------------------------------
\* Properties of the symbol table
\* ------------------------------------------------------------------------
ScopeOf(kind) == IF kind \in {"STATIC", "FIELD"} THEN classScope ELSE subRoutineScope

\* C10: a define call whose name is already in the scope level of its kind
\* fails and leaves both scopes and the counters as they were
C10_DefineRejectsDuplicate ==
    [][ (nDefines' = nDefines + 1 /\ symLast'.name \in DOMAIN ScopeOf(symLast'.kind)) =>
            /\ ~symLast'.ok
            /\ UNCHANGED <<classScope, subRoutineScope, indices>>
      ]_vars

\* the symbols of the table, of both scopes
Symbols ==
    {classScope[n] : n \in DOMAIN classScope} \cup
    {subRoutineScope[n] : n \in DOMAIN subRoutineScope}

\* C11: for each kind the symbols of that kind carry exactly the indices
\* 0 .. varCount(kind)-1, no two symbols share a (kind, index), and within
\* a kind the indices follow the order of declaration
C11_IndicesDenseAndUnique ==
    \A k \in SymbolKinds :
        LET ofKind == {sym \in Symbols : sym.kind = k}
        IN  /\ {sym.index : sym \in ofKind} = 0 .. (varCount(k) - 1)
            /\ \A a, b \in ofKind : a.index = b.index => a = b
            /\ \A a, b \in ofKind : a.index < b.index <=> a.declLine < b.declLine

\* C12: startSubroutine leaves no ARG or LCL symbol in the table, sets the
\* ARG and LCL counters to 0, and leaves the class scope and the STATIC and
\* FIELD counters as they were
C12_StartSubroutineFrame ==
    [][ symLast'.op = "startSubroutine" =>
            /\ \A sym \in Symbols' : sym.kind \notin {"ARG", "LCL"}
            /\ varCount("ARG")' = 0
            /\ varCount("LCL")' = 0
            /\ classScope' = classScope
            /\ varCount("STATIC")' = varCount("STATIC")
            /\ varCount("FIELD")' = varCount("FIELD")
      ]_vars

\* startSubroutine has removed a local from a table that holds class-level
\* symbols
C12_Witness ==
    /\ symLast.op = "startSubroutine"
    /\ symLast.cleared # {}
    /\ classScope # << >>
    /\ indices["LCL"] = 0
    /\ nDefines > indices["STATIC"] + indices["FIELD"] + 1

\* C13: a define of an ARG or LCL symbol whose name is in the class scope
\* only succeeds, and kindOf, typeOf and indexOf then give the new symbol;
\* after startSubroutine they give the class-level symbol of every name that
\* has one; for a name in neither scope kindOf gives NONE
C13_ShadowingAndLookup ==
    [][ /\ \A n \in SymNames :
              (/\ nDefines' = nDefines + 1
               /\ symLast'.name = n
               /\ symLast'.kind \in {"ARG", "LCL"}
               /\ n \in DOMAIN classScope
               /\ n \notin DOMAIN subRoutineScope) =>
                  /\ symLast'.ok
                  /\ kindOf(n)' = symLast'.kind
                  /\ typeOf(n)' = subRoutineScope'[n].type
                  /\ typeOf(n)' \in SymTypes
                  /\ indexOf(n)' = varCount(symLast'.kind)
        /\ \A n \in SymNames :
              (symLast'.op = "startSubroutine" /\ n \in DOMAIN classScope) =>
                  /\ kindOf(n)' = classScope[n].kind
                  /\ typeOf(n)' = classScope[n].type
                  /\ indexOf(n)' = classScope[n].index
        /\ \A n \in SymNames :
              (n \notin DOMAIN classScope' /\ n \notin DOMAIN subRoutineScope') =>
                  kindOf(n)' = "NONE"
      ]_vars

\* a local shadows a class-level symbol of another type
C13_Witness ==
    \E n \in SymNames :
        /\ symLast = [op |-> "define", name |-> n, kind |-> "LCL", ok |-> TRUE]
        /\ n \in DOMAIN classScope
        /\ n \in DOMAIN subRoutineScope
        /\ classScope[n].type # subRoutineScope[n].type
        /\ kindOf(n) = "LCL"

\* ------------------------------------------------------------------------
\* Properties of the tokenizer
\* ------------------------------------------------------------------------
\* the current token, the scanner position and the error after construction
\* and k advance calls, with no peek call made
RECURSIVE AfterAdvances(_, _)
AfterAdvances(s, k) ==
    IF k = 0
    THEN LET r == fetchNext(s, [pos |-> 0, line |-> 1, column |-> 1])
         IN  [cur |-> r.tok, st |-> r.st, err |-> r.err]
    ELSE LET before == AfterAdvances(s, k - 1)
             r == fetchNext(s, before.st)
         IN  IF before.err # NoLexError \/ before.cur.type = "END_OF_FILE" THEN before
             ELSE IF r.err # NoLexError THEN [cur |-> before.cur, st |-> r.st, err |-> r.err]
             ELSE [cur |-> r.tok, st |-> r.st, err |-> NoLexError]

\* C14: a peek call leaves the current token as it was; a peek call that
\* follows a peek call returns the same token; an advance call that follows
\* a peek call makes the peeked token the current one; and the current token
\* after k advance calls, and any error met, are those of the run that makes
\* no peek call
C14_PeekKeepsTokenStream ==
    /\ [](/\ lexError = NoLexError =>
                currentToken = AfterAdvances(lexSrc, nAdvance).cur
          /\ lexError # NoLexError =>
                \E k \in 0 .. (nAdvance + 1) : AfterAdvances(lexSrc, k).err = lexError)
    /\ [][ /\ lexLast' = "peek" => currentToken' = currentToken
           /\ (lexLast = "peek" /\ lexLast' = "peek") => peekToken' = peekToken
           /\ (lexLast = "peek" /\ nAdvance' = nAdvance + 1) => currentToken' = peekToken
         ]_vars

\* the second advance call took a keyword that peek had fetched
C14_Witness ==
    /\ lexLast = "promote"
    /\ nAdvance = 2
    /\ currentToken.type = "KEYWORD"
    /\ peekToken = NoToken

\* the number a run of digits writes
RECURSIVE NumVal(_)
NumVal(s) ==
    IF Len(s) = 0 THEN 0
    ELSE 10 * NumVal(SubSeq(s, 1, Len(s) - 1)) + DigitVal(s[Len(s)])

\* C15: readNumber on a run of digits yields the integer constant of the
\* run's value when that value is at most 32767 and throws the range error
\* otherwise, and its accumulator never holds a value above 32767
C15_ReadNumberRange ==
    LET start == [pos |-> 0, line |-> 1, column |-> 1]
        r == readNumber(lexSrc, start, 1, 1)
        accumulator == readDigits(lexSrc, start, 0).value
    IN  (lexSrc # << >> /\ \A i \in DOMAIN lexSrc : lexSrc[i] \in NumChars) =>
            /\ lexError = r.err
            /\ (nAdvance = 0 /\ lexError = NoLexError) => currentToken = r.tok
            /\ accumulator <= MaxIntConst
            /\ IF NumVal(lexSrc) <= MaxIntConst
               THEN /\ r.err = NoLexError
                    /\ r.tok = IntToken(NumVal(lexSrc), 1, 1)
                    /\ r.st.pos = Len(lexSrc)
               ELSE /\ r.tok = NoToken
                    /\ r.err = errorAt(1, 1, "Integer constant too large (max 32767)")

\* the largest constant, written with a leading zero, was read
C15_Witness ==
    /\ lexSrc = <<"0", "3", "2", "7", "6", "7">>
    /\ currentToken = IntToken(MaxIntConst, 1, 1)
    /\ lexError = NoLexError

\* ------------------------------------------------------------------------
\* Properties of the expression parser and of the generated code
\* ------------------------------------------------------------------------
\* the tokens of toks that stand where the grammar has a binary operator,
\* in a sequence without parentheses: an operator right after a variable or
\* a constant
OperatorPositions(toks) ==
    {k \in 2..Len(toks) :
        /\ isBinaryOp(toks, k)
        /\ toks[k - 1].type \in {"IDENTIFIER", "INT_CONST"}}

NoParentheses(toks) == \A i \in 1..Len(toks) : getValue(toks[i]) \notin {"(", ")"}

LastOf(S) == CHOOSE k \in S : \A j \in S : j <= k

\* C16: an expression t0 op1 t1 ... opn tn written without parentheses is
\* parsed left-nested whatever the operators are: the root of the tree is
\* the last operator opn, its left operand is the tree of
\* t0 op1 ... op(n-1) t(n-1) and its right operand is the term tn.
C16_LeftNestedNoPrecedence ==
    (ParsedWhole /\ NoParentheses(exprTokens) /\ OperatorPositions(exprTokens) # {}) =>
        LET k == LastOf(OperatorPositions(exprTokens))
            before == parseExpression(SubSeq(exprTokens, 1, k - 1), 1)
            after == parseTerm(SubSeq(exprTokens, k + 1, Len(exprTokens)), 1)
        IN  /\ before.ok /\ before.pos = k
            /\ after.ok /\ after.pos = Len(exprTokens) - k + 1
            /\ exprParse.node =
                  BinaryOpNode(before.node, getValue(exprTokens[k]), after.node)

\* `x = 1 - x` is parsed, as ((x = 1) - x)
C16_Witness ==
    /\ exprTokens = ExprTokensOf(<<"x", "=", "1", "-", "x">>)
    /\ exprParse =
          Parsed(BinaryOpNode(BinaryOpNode(IdentifierNode("x", NoNode), "=",
                                           IntegerLiteralNode(1)),
                              "-", IdentifierNode("x", NoNode)), 6)

\* C18: for a unary expression -t or ~t of an accepted program the emitted
\* code is the complete code of t followed by neg, respectively not.
C18_UnaryAfterOperandCode ==
    (exprOut # NoOutput /\ exprParse.node.type = "UNARY_OP") =>
        exprOut = compileExpression(ExprTable, "Main", exprParse.node.term)
                  \o <<writeArithmetic(IF exprParse.node.op = "-" THEN "neg" ELSE "not")>>

\* ------------------------------------------------------------------------
\* Properties of the code generated for a class
\* ------------------------------------------------------------------------
\* the calls written in stmts, in source order (the conditions and the
\* assigned values of GenClasses hold no call)
RECURSIVE SourceCalls(_)
SourceCalls(stmts) ==
    IF stmts = << >> THEN << >>
    ELSE LET s == Head(stmts)
         IN  (CASE s.type = "DO_STATEMENT" -> <<s.callExpression>>
                [] s.type = "WHILE_STATEMENT" -> SourceCalls(s.body)
                [] s.type = "IF_STATEMENT" ->
                      SourceCalls(s.ifStatements) \o SourceCalls(s.elseStatements)
                [] OTHER -> << >>)
             \o SourceCalls(Tail(stmts))

\* the calls written in the first n subroutines of the class
RECURSIVE CallsUpTo(_)
CallsUpTo(n) ==
    IF n <= 0 THEN << >>
    ELSE CallsUpTo(n - 1) \o SourceCalls(classNode.subroutineDecs[n].statements)

\* a call line that stands for a call of the source: every call line but
\* the `call Memory.alloc 1` at the head of a constructor
IsSourceCallLine(l) == l[1] = "call" /\ <<l[2], l[3]>> # <<"Memory", "alloc">>

\* C17: every emitted `call T.m k` has k = |args| when T.m is a function or
\* a constructor and k = 1 + |args| when T.m is a method, |args| being the
\* number of argument expressions written in the call; this holds of calls
\* on a class, on a variable and without a receiver.
C17_CallArgumentCount ==
    subIndex >= 0 =>
        LET written == CallsUpTo(subIndex)
            emitted == SelectSeq(vmOut, IsSourceCallLine)
            registry == registryAfterParse(classNode).methods
        IN  /\ Len(emitted) = Len(written)
            /\ \A i \in 1..Len(emitted) :
                  emitted[i][4] =
                      Len(written[i].arguments)
                      + (IF registry[emitted[i][2]][emitted[i][3]].isStatic THEN 0 ELSE 1)

LabelLines == {i \in DOMAIN vmOut : vmOut[i][1] = "label"}
JumpLines == {i \in DOMAIN vmOut : vmOut[i][1] \in {"goto", "if-goto"}}

\* the `function` line that opens the subroutine line i belongs to
FunctionOfLine(i) ==
    CHOOSE k \in 1..i :
        /\ vmOut[k][1] = "function"
        /\ \A j \in (k + 1)..i : vmOut[j][1] # "function"

\* C19: in the code of one class no two label lines carry the same name,
\* whatever if and while statements its subroutines hold, and every goto
\* and if-goto names a label written in the same subroutine.
C19_LabelsUniqueJumpsLocal ==
    /\ \A i, j \in LabelLines : i # j => vmOut[i][2] # vmOut[j][2]
    /\ \A i \in JumpLines :
          \E j \in LabelLines :
              /\ vmOut[j][2] = vmOut[i][2]
              /\ FunctionOfLine(j) = FunctionOfLine(i)

\* two subroutines are compiled, each with nested statements: eight labels
\* or more, in two subroutines
C19_Witness ==
    /\ subIndex = 2
    /\ Cardinality(LabelLines) >= 8
    /\ \E i, j \in LabelLines : FunctionOfLine(i) # FunctionOfLine(j)
    /\ \E i \in LabelLines : vmOut[i] = writeLabel(LabelName(7))

\* the number of names in a list of var declarations
RECURSIVE NumberOfVarNames(_)
NumberOfVarNames(decs) ==
    IF decs = << >> THEN 0 ELSE Len(Head(decs).varNames) + NumberOfVarNames(Tail(decs))

IsFunctionLine(l) == l[1] = "function"

\* C20: every emitted `function C.s n` has n equal to the number of
\* variable names in the var declarations of s alone: parameters, `this`,
\* class variables and the variables of other subroutines do not count.
C20_FunctionLocalsCount ==
    subIndex >= 0 =>
        LET functions == SelectSeq(vmOut, IsFunctionLine)
        IN  /\ Len(functions) = subIndex
            /\ \A i \in 1..subIndex :
                  LET s == classNode.subroutineDecs[i]
                  IN  functions[i] =
                          <<"function", classNode.className, s.name,
                            NumberOfVarNames(s.localVars)>>

\* a function with two local variables is followed by a method with a
\* parameter and one local variable, and both are compiled
C20_Witness ==
    /\ subIndex = 2
    /\ NumberOfVarNames(classNode.subroutineDecs[1].localVars) = 2
    /\ NumberOfVarNames(classNode.subroutineDecs[2].localVars) = 1
    /\ classNode.subroutineDecs[2].subType = "method"
    /\ vmOut[1] = writeFunction(<<"Main", "f">>, 2)
    /\ \E i \in DOMAIN vmOut : vmOut[i] = writeFunction(<<"Main", "g">>, 1)

\* ------------------------------------------------------------------------
\* The analyser on one subroutine of a class
\* ------------------------------------------------------------------------
\* the class is
\*   class Main { static Main v; field int a;
\*                function void f(int p) {}  method int m(int p) {}
\*                constructor Main new() {}  <the subroutine s> }
\* and s declares `var Main x; var int n;` and holds one statement
SemLocals == <<VarDecNode("Main", <<"x">>), VarDecNode("int", <<"n">>)>>

SemFixedSubs ==
    <<SubroutineDecNode("function", "void", "f", <<Parameter("int", "p")>>, << >>, << >>),
      SubroutineDecNode("method", "int", "m", <<Parameter("int", "p")>>, << >>, << >>),
      SubroutineDecNode("constructor", "Main", "new", << >>, << >>, << >>)>>

\* argument lists: none, `1`, `null`, `true`, `1, 1`
SemArguments ==
    {<< >>, <<IntegerLiteralNode(1)>>, <<KeywordLiteralNode("NULL_")>>,
     <<KeywordLiteralNode("TRUE_")>>, <<IntegerLiteralNode(1), IntegerLiteralNode(1)>>}

\* calls without a receiver, on a variable of class type, on a variable of
\* type int, on a class variable, on the class, on a library class and on
\* a name that is neither; of a function, a method, a constructor, the
\* subroutine itself, a library function and a name no class declares
SemCalls ==
    {CallNode(cv, fn, args) :
        cv \in {"", "x", "n", "v", "Main", "Math", "Zed"},
        fn \in {"f", "m", "new", "s", "abs", "zz"},
        args \in SemArguments}

\* return statements: bare, and of this, 1, null, true, x and n
SemReturns ==
    {ReturnStatementNode(e) :
        e \in {NoNode, KeywordLiteralNode("THIS_"), IntegerLiteralNode(1),
               KeywordLiteralNode("NULL_"), KeywordLiteralNode("TRUE_"),
               IdentifierNode("x", NoNode), IdentifierNode("n", NoNode)}}

SemStatements == {DoStatementNode(c) : c \in SemCalls} \cup SemReturns

SemReturnTypes == {"void", "int", "Main"}

SemSubs ==
    {SubroutineDecNode(st, ret, "s", << >>, SemLocals, <<stmt>>) :
        st \in SubTypes, ret \in SemReturnTypes, stmt \in SemStatements}

SemClass(sub) == ClassNode("Main", GenClassVars, Append(SemFixedSubs, sub))

InitSem ==
    /\ semSub \in SemSubs
    /\ semVerdict = "none"

\* the analyse task on the class, as far as the subroutine s: the parser has
\* registered the class and its four subroutines
AnalyseSubroutine ==
    /\ semVerdict = "none"
    /\ LET node == SemClass(semSub)
       IN  semVerdict' =
               IF analyseSubroutineNode(registryAfterParse(node), node.className,
                                        classTable(node).table, semSub)
               THEN "accepted" ELSE "rejected"
    /\ UNCHANGED semSub
    /\ UNCHANGED <<driverVars, symVars, lexVars, exprVars, genVars, typeVars, parseVars, runVars>>

NextSem == AnalyseSubroutine
InitSemSpec ==
    /\ DriverAtRest /\ InitSym /\ LexAtRest /\ ExprAtRest /\ GenAtRest
    /\ TypesAtRest /\ InitSem /\ ParserAtRest /\ RunAtRest
SpecSem == InitSemSpec /\ [][NextSem]_vars

\* ------------------------------------------------------------------------
\* Parser: the class level, on the tokens of the Tokenizer
\* ------------------------------------------------------------------------
\* the characters of a token's text as one string
RECURSIVE JoinChars(_)
JoinChars(cs) == IF cs = << >> THEN "" ELSE Head(cs) \o JoinChars(Tail(cs))

\* Token::getValue on a token the Tokenizer made
tokenValue(tok) ==
    IF tok.type \in {"IDENTIFIER", "STRING_CONST", "SYMBOL"} THEN JoinChars(tok.text)
    ELSE IF tok.type = "KEYWORD" THEN keywordToString(tok.keyword)
    ELSE ""

\* what the successive calls of Tokenizer::fetchNext return on source s
\* from the scanner position st on, up to the end of the file or the first
\* lexical error: the Tokenizer reads nothing but s and its position, so
\* the k-th call made through Parser::advance returns the k-th of them
RECURSIVE fetches(_, _)
fetches(s, st) ==
    LET r == fetchNext(s, st)
    IN  IF r.err # NoLexError \/ r.tok.type = "END_OF_FILE" THEN <<r>>
        ELSE <<r>> \o fetches(s, r.st)

\* Parser::Parser on a Tokenizer that has fetched its first token.  by and
\* offending tell who threw err and at which token the rule was broken;
\* nClassVars and nSubroutineDecs are the sizes of the two vectors of
\* parseClass
NewParser(s) ==
    LET fetched == fetches(s, [pos |-> 0, line |-> 1, column |-> 1])
        r == fetched[1]
    IN  [src |-> s, fetched |-> fetched, nFetched |-> 1,
         tok |-> r.tok, st |-> r.st, err |-> r.err,
         by |-> IF r.err # NoLexError THEN "tokenizer" ELSE "", offending |-> NoToken,
         classes |-> loadStandardLibrary.classes, methods |-> loadStandardLibrary.methods,
         currentClassName |-> "", parameters |-> << >>,
         nClassVars |-> 0, nSubroutineDecs |-> 0]

Failed(P) == P.err # NoLexError

\* the statement after one that may have thrown
Then(P, F(_)) == IF Failed(P) THEN P ELSE F(P)

\* Parser::advance: Tokenizer::advance (no token is ever waiting in
\* peekToken at the class level), then currentToken = &tokenizer.current()
parserAdvance(P) ==
    IF P.tok.type = "END_OF_FILE" THEN P
    ELSE LET r == P.fetched[P.nFetched + 1]
         IN  IF r.err # NoLexError
             THEN [P EXCEPT !.nFetched = @ + 1, !.st = r.st, !.err = r.err,
                            !.by = "tokenizer"]
             ELSE [P EXCEPT !.nFetched = @ + 1, !.tok = r.tok, !.st = r.st]

\* tokenizer.errorAt(currentToken->getLine(), currentToken->getColumn(), message)
parserErrorAt(P, message) ==
    [P EXCEPT !.err = errorAt(P.tok.line, P.tok.column, message),
              !.by = "parser", !.offending = P.tok]

\* tokenizer.errorHere(message): the scanner's line and column; tok is the
\* token the broken rule is about
parserErrorHere(P, tok, message) ==
    [P EXCEPT !.err = errorAt(P.st.line, P.st.column, message),
              !.by = "parser", !.offending = tok]

\* Parser::check(text) and Parser::check(type)
parserCheck(P, text) == tokenValue(P.tok) = text
parserCheckType(P, type) == P.tok.type = type

\* Parser::consume(text, errorMessage) and Parser::consume(type, errorMessage)
consume(P, text, errorMessage) ==
    IF parserCheck(P, text) THEN parserAdvance(P) ELSE parserErrorAt(P, errorMessage)
consumeType(P, type, errorMessage) ==
    IF parserCheckType(P, type) THEN parserAdvance(P) ELSE parserErrorAt(P, errorMessage)

\* check("int")||check("boolean")||check("char")||check("float")||check(IDENTIFIER)
isVarType(P) ==
    \/ parserCheck(P, "int") \/ parserCheck(P, "boolean") \/ parserCheck(P, "char")
    \/ parserCheck(P, "float") \/ parserCheckType(P, "IDENTIFIER")

\* check("int")||check("boolean")||check("char")||check(IDENTIFIER)
isParameterType(P) ==
    \/ parserCheck(P, "int") \/ parserCheck(P, "boolean") \/ parserCheck(P, "char")
    \/ parserCheckType(P, "IDENTIFIER")

consumeVarName(P) == consumeType(P, "IDENTIFIER", "Expected variable name")

\* the `while (true)` of parseClassVarDec
RECURSIVE classVarNames(_)
classVarNames(P) ==
    IF parserCheck(P, ",")
    THEN Then(Then(parserAdvance(P), consumeVarName), classVarNames)
    ELSE IF parserCheckType(P, "IDENTIFIER")
    THEN parserErrorAt(P, "Missing ',' between variable identifiers")
    ELSE IF parserCheck(P, ";") THEN P
    ELSE parserErrorAt(P, "Expected ',' or ';' after variable name")

consumeVarType(P) ==
    IF isVarType(P) THEN parserAdvance(P)
    ELSE parserErrorAt(P, "Expected variable type (int, char, boolean, or class name)")

consumeSemicolon(P) == consume(P, ";", "Expected ';' at the end of variable declaration")

\* Parser::parseClassVarDec
parseClassVarDec(P) ==
    Then(Then(Then(Then(parserAdvance(P), consumeVarType), consumeVarName),
              classVarNames), consumeSemicolon)

\* the `while (true)` of parseVarDec
RECURSIVE varNames(_)
varNames(P) ==
    IF parserCheck(P, ",")
    THEN Then(Then(parserAdvance(P), consumeVarName), varNames)
    ELSE IF parserCheckType(P, "IDENTIFIER")
    THEN parserErrorAt(P, "Missing ',' between variable identifiers")
    ELSE P

consumeVar(P) == consume(P, "var", "Expected 'var' keyword")

\* Parser::parseVarDec
parseVarDec(P) ==
    Then(Then(Then(Then(consumeVar(P), consumeVarType), consumeVarName), varNames),
         consumeSemicolon)

\* the `while (check("var"))` of parseSubroutine
RECURSIVE parseVarDecs(_)
parseVarDecs(P) ==
    IF parserCheck(P, "var") THEN Then(parseVarDec(P), parseVarDecs) ELSE P

\* Parser::parseStatement where the current token starts no statement: the
\* subroutine bodies of this model hold no statement
parseStatement(P) == parserErrorAt(P, "Unknown statement or unexpected text")

\* Parser::parseStatements
RECURSIVE parseStatements(_)
parseStatements(P) ==
    IF parserCheck(P, "}") THEN P ELSE Then(parseStatement(P), parseStatements)

\* the `while (true)` over the parameters of parseSubroutine
RECURSIVE parseParameters(_)
parseParameters(P) ==
    LET pType == tokenValue(P.tok)
        typed == IF isParameterType(P) THEN parserAdvance(P)
                 ELSE parserErrorAt(P, "Expected parameter type (int, char, boolean, or class name)")
        named == Then(typed, LAMBDA Q : consumeType(Q, "IDENTIFIER", "Expected parameter name"))
        pushed == Then(named, LAMBDA Q : [Q EXCEPT !.parameters = Append(@, pType)])
    IN  Then(pushed, LAMBDA Q :
            IF parserCheck(Q, ",") THEN Then(parserAdvance(Q), parseParameters)
            ELSE IF parserCheck(Q, ")") THEN Q
            ELSE IF isParameterType(Q)
            THEN parserErrorAt(Q, "Missing ',' between parameters")
            ELSE parserErrorAt(Q, "Expected ')' to close parameter list"))

\* Parser::parseSubroutine
parseSubroutine(P) ==
    LET line == P.tok.line
        col == P.tok.column
        type == tokenValue(P.tok)
        P1 == parserAdvance(P)
        returnType == tokenValue(P1.tok)
        P2 == Then(P1, LAMBDA Q :
                  IF tokenValue(Q.tok) = "void" \/ isVarType(Q) THEN parserAdvance(Q)
                  ELSE parserErrorAt(Q, "Expected return type void, int, char, boolean, or class name"))
        subroutineName == tokenValue(P2.tok)
        P3 == Then(P2, LAMBDA Q : consumeType(Q, "IDENTIFIER", "Expected subroutine name"))
        P4 == Then(P3, LAMBDA Q : consume(Q, "(", "Expected '(' to open parameter list"))
        P5 == Then(P4, LAMBDA Q :
                  IF parserCheck(Q, ")") THEN [Q EXCEPT !.parameters = << >>]
                  ELSE parseParameters([Q EXCEPT !.parameters = << >>]))
        P6 == Then(P5, LAMBDA Q : consume(Q, ")", "Expected ')' to close parameter list"))
        P7 == Then(P6, LAMBDA Q :
                  LET r == registerMethod(Q.methods, Q.currentClassName, subroutineName,
                                          Sig(returnType, Q.parameters, isStaticKind(type),
                                              line, col))
                  IN  IF r.ok THEN [Q EXCEPT !.methods = r.methods]
                      ELSE [Q EXCEPT !.err = errorAt(line, col, "Subroutine is already defined"),
                                     !.by = "registry"])
        P8 == Then(P7, LAMBDA Q : consume(Q, "{", "Expected '{' to open subroutine body"))
        P9 == Then(Then(P8, parseVarDecs), parseStatements)
    IN  Then(P9, LAMBDA Q : consume(Q, "}", "Expected '}' to close subroutine body"))

\* the `while (!check("}"))` of parseClass
RECURSIVE parseClassBody(_)
parseClassBody(P) ==
    LET val == tokenValue(P.tok)
    IN  IF parserCheck(P, "}") THEN P
        ELSE IF val = "static" \/ val = "field"
        THEN Then(Then(parseClassVarDec(P),
                       LAMBDA Q : [Q EXCEPT !.nClassVars = @ + 1]), parseClassBody)
        ELSE IF val = "constructor" \/ val = "method" \/ val = "function"
        THEN Then(Then(parseSubroutine(P),
                       LAMBDA Q : [Q EXCEPT !.nSubroutineDecs = @ + 1]), parseClassBody)
        ELSE parserErrorAt(P, "Expected class variable or subroutine declaration")

\* Parser::parseClass on the file named expectedName.jack
parseClass(P, expectedName) ==
    LET P1 == consume(P, "class", "Expected 'class' keyword")
        nameToken == P1.tok
        className == tokenValue(P1.tok)
        P2 == Then(P1, LAMBDA Q : consumeType(Q, "IDENTIFIER", "Expected class name"))
        P3 == Then(P2, LAMBDA Q :
                  IF className # expectedName
                  THEN parserErrorHere(Q, nameToken, "Class name mismatch")
                  ELSE IF classExists(Q.classes, className)
                  THEN parserErrorHere(Q, nameToken, "Duplicate class definition")
                  ELSE [Q EXCEPT !.currentClassName = className,
                                 !.classes = registerClass(@, className)])
        P4 == Then(P3, LAMBDA Q : consume(Q, "{", "Expected '{'"))
        P5 == Then(P4, parseClassBody)
    IN  Then(P5, LAMBDA Q : consume(Q, "}", "Expected '}' to close class body"))

\* the single class check of Parser::parse, after parseClass has returned
parseEnd(P) ==
    IF P.tok.type # "END_OF_FILE"
    THEN parserErrorHere(P, P.tok, "A Jack file must contain exactly one class")
    ELSE P

\* ------------------------------------------------------------------------
\* The parser on one file
\* ------------------------------------------------------------------------
\* most declarations in the class body
MaxItems == 2

\* the words of the files, as the characters the Tokenizer reads
classWord == <<"c", "l", "a", "s", "s">>
staticWord == <<"s", "t", "a", "t", "i", "c">>
functionWord == <<"f", "u", "n", "c", "t", "i", "o", "n">>
intWord == <<"i", "n", "t">>
voidWord == <<"v", "o", "i", "d">>
MainWord == <<"M", "a", "i", "n">>
MathWord == <<"M", "a", "t", "h">>

\* what a file starts with: `class Main {`, `class Math {`, and the same
\* with the keyword, the name or the brace missing
JackHeads ==
    { <<classWord, MainWord, <<"{">> >>, <<classWord, MathWord, <<"{">> >>,
      <<MainWord, <<"{">> >>, <<classWord, <<"{">> >>, <<classWord, MainWord>> }

\* what follows the class body: `}`, `} }`, `} x`, nothing
JackTails == { << <<"}">> >>, << <<"}">>, <<"}">> >>, << <<"}">>, <<"x">> >>, << >> }

\* the words of declaration i of the body: `static int x ;`,
\* `function void f ( ) { }` under the i-th subroutine name, or the stray
\* identifier `x`
ItemKinds == {"classVar", "subroutine", "junk"}
ItemWords(kind, i) ==
    CASE kind = "classVar" -> <<staticWord, intWord, <<"x">>, <<";">> >>
      [] kind = "subroutine" ->
            <<functionWord, voidWord, <<SubNames[i]>>, <<"(">>, <<")">>, <<"{">>, <<"}">> >>
      [] OTHER -> << <<"x">> >>

RECURSIVE BodyWords(_, _)
BodyWords(body, i) ==
    IF i > Len(body) THEN << >> ELSE ItemWords(body[i], i) \o BodyWords(body, i + 1)

\* the words on one line with a space between them, or one word a line
RECURSIVE JoinWords(_, _)
JoinWords(words, sep) ==
    IF words = << >> THEN << >>
    ELSE IF Len(words) = 1 THEN words[1]
    ELSE words[1] \o <<sep>> \o JoinWords(Tail(words), sep)

\* a file named stem.jack whose class body holds the declarations of body
JackFiles(n) ==
    {[stem |-> stem, body |-> body,
      text |-> JoinWords(head \o BodyWords(body, 1) \o tail, sep)] :
        stem \in {"Main", "Math"}, head \in JackHeads, body \in SeqsUpTo(ItemKinds, n),
        tail \in JackTails, sep \in {" ", "\n"}}

\* the Tokenizer has loaded the file and the Parser was made on it
InitParse ==
    /\ jackFile \in JackFiles(MaxItems)
    /\ parser = NewParser(jackFile.text)
    /\ parsePc = "new"

\* Parser::parse up to the return of parseClass
ParseClass ==
    /\ parsePc = "new"
    /\ parser' = parseClass(parser, jackFile.stem)
    /\ parsePc' = IF Failed(parser') THEN "failed" ELSE "class"
    /\ UNCHANGED jackFile
    /\ UNCHANGED <<driverVars, symVars, lexVars, exprVars, genVars, typeVars, semVars, runVars>>

\* the rest of Parser::parse
ParseEnd ==
    /\ parsePc = "class"
    /\ parser' = parseEnd(parser)
    /\ parsePc' = IF Failed(parser') THEN "failed" ELSE "done"
    /\ UNCHANGED jackFile
    /\ UNCHANGED <<driverVars, symVars, lexVars, exprVars, genVars, typeVars, semVars, runVars>>

NextParse == ParseClass \/ ParseEnd
InitParseSpec ==
    /\ DriverAtRest /\ InitSym /\ LexAtRest /\ ExprAtRest /\ GenAtRest
    /\ TypesAtRest /\ SemAtRest /\ InitParse /\ RunAtRest
SpecParse == InitParseSpec /\ [][NextParse]_vars

\* ------------------------------------------------------------------------
\* C24: the entry point
\* ------------------------------------------------------------------------
\* the declaration the registry's Main.main comes from: the first
\* subroutine of the file that declares Main
DeclaredAsVoidFunction ==
    \E t \in Tasks :
        /\ files[t].cls = "Main"
        /\ Len(files[t].subs) >= 1
        /\ files[t].subs[1].kind = "function"
        /\ files[t].subs[1].ret = "void"

\* C24: the driver gets past validateMainEntry, into the analyse phase, only
\* when Main.main was declared `function void main()`
C24_EntryIsVoidFunction ==
    phase \in {"analyse", "generate"} => DeclaredAsVoidFunction

\* ------------------------------------------------------------------------
\* checkTypeMatch on its own
\* ------------------------------------------------------------------------
\* the type names the analyser compares: the primitive types, void, the
\* type of the literal null, and class names
MatchTypes == {"int", "char", "boolean", "void", "null", "String", "Array", "Main"}

InitTypes ==
    /\ tmExpected \in MatchTypes
    /\ tmActual \in MatchTypes
    /\ tmVerdict = "none"

CheckTypeMatch ==
    /\ tmVerdict = "none"
    /\ tmVerdict' = IF checkTypeMatch(tmExpected, tmActual) THEN "accepted" ELSE "rejected"
    /\ UNCHANGED <<tmExpected, tmActual>>
    /\ UNCHANGED <<driverVars, symVars, lexVars, exprVars, genVars, semVars, parseVars, runVars>>

NextTypes == CheckTypeMatch
InitTypesSpec ==
    /\ DriverAtRest /\ InitSym /\ LexAtRest /\ ExprAtRest /\ GenAtRest
    /\ InitTypes /\ SemAtRest /\ ParserAtRest /\ RunAtRest
SpecTypes == InitTypesSpec /\ [][NextTypes]_vars

PrimitiveTypes == {"int", "char", "boolean"}

\* C21: checkTypeMatch accepts exactly when the types are equal, or actual
\* is null and expected is a class type, or expected is char and actual is
\* int
C21_ThreeAcceptedCases ==
    tmVerdict # "none" =>
        (tmVerdict = "accepted" <=>
            \/ tmExpected = tmActual
            \/ tmActual = "null" /\ tmExpected \notin PrimitiveTypes
            \/ tmExpected = "char" /\ tmActual = "int")

\* ------------------------------------------------------------------------
\* C22, C23, C25: what the analyser accepts
\* ------------------------------------------------------------------------
\* the statement of the subroutine under analysis, and the registry, the
\* symbol table and the names the analyser holds while it is in it
SemStatement == semSub.statements[1]
SemRegistry == registryAfterParse(SemClass(semSub))
SemTable == subroutineTable(classTable(SemClass(semSub)).table, "Main", semSub).table
SemContext ==
    [classes |-> SemRegistry.classes, methods |-> SemRegistry.methods,
     currentClassName |-> "Main", currentSubroutineName |-> semSub.name,
     currentSubroutineKind |-> semSub.subType]

AcceptedDo == semVerdict = "accepted" /\ SemStatement.type = "DO_STATEMENT"
AcceptedReturn == semVerdict = "accepted" /\ SemStatement.type = "RETURN_STATEMENT"

\* the subroutine is registered and is not static
IsMethodOf(className, name) ==
    /\ methodExists(SemRegistry.methods, className, name)
    /\ ~SemRegistry.methods[className][name].isStatic

IsStaticOf(className, name) ==
    /\ methodExists(SemRegistry.methods, className, name)
    /\ SemRegistry.methods[className][name].isStatic

\* C22: an accepted call without a receiver whose target is a method of the
\* current class stands in a method, never in a function or a constructor
C22_ImplicitMethodCallOnlyInMethod ==
    (/\ AcceptedDo
     /\ SemStatement.callExpression.classNameOrVar = ""
     /\ IsMethodOf("Main", SemStatement.callExpression.functionName))
        => semSub.subType = "method"

IsLiteralThis(e) == e # NoNode /\ e.type = "KEYWORD_LITERAL" /\ e.value = "THIS_"

\* C23: an accepted return statement returns the literal this in a
\* constructor, nothing in a subroutine declared void, and otherwise an
\* expression whose type passes checkTypeMatch against the declared type
C23_AcceptedReturns ==
    AcceptedReturn =>
        LET e == SemStatement.expression
        IN  /\ semSub.subType = "constructor" => IsLiteralThis(e)
            /\ semSub.returnType = "void" => e = NoNode
            /\ semSub.returnType # "void" =>
                  /\ e # NoNode
                  /\ analyseExpression(SemContext, SemTable, e) # TypeError
                  /\ checkTypeMatch(semSub.returnType,
                                    analyseExpression(SemContext, SemTable, e))

\* `constructor Main s() { return this; }` was accepted
C23_Witness ==
    /\ AcceptedReturn
    /\ semSub.subType = "constructor"
    /\ semSub.returnType = "Main"
    /\ IsLiteralThis(SemStatement.expression)

\* the class an accepted call is looked up in
TargetClassOf(call) ==
    IF call.classNameOrVar = "" THEN "Main"
    ELSE IF typeOfIn(SemTable, call.classNameOrVar) # ""
    THEN typeOfIn(SemTable, call.classNameOrVar)
    ELSE call.classNameOrVar

\* C25: an accepted call on a variable has a non-static target in the class
\* of the variable's type; one on a class name has a static target in that
\* class; and its arguments are as many as the target's parameters, each of
\* a type that passes checkTypeMatch against the parameter's
C25_AcceptedCallsMatchSignature ==
    AcceptedDo =>
        LET call == SemStatement.callExpression
            isVariable == call.classNameOrVar # "" /\ typeOfIn(SemTable, call.classNameOrVar) # ""
            isClassName == call.classNameOrVar # "" /\ ~isVariable
            targetClass == TargetClassOf(call)
        IN  /\ methodExists(SemRegistry.methods, targetClass, call.functionName)
            /\ isVariable => IsMethodOf(targetClass, call.functionName)
            /\ isClassName => IsStaticOf(targetClass, call.functionName)
            /\ LET parameters == SemRegistry.methods[targetClass][call.functionName].parameters
               IN  /\ Len(call.arguments) = Len(parameters)
                   /\ \A i \in 1..Len(call.arguments) :
                         LET argType == analyseExpression(SemContext, SemTable,
                                                          call.arguments[i])
                         IN  argType # TypeError /\ checkTypeMatch(parameters[i], argType)

\* `do x.m(1);` with x of type Main was accepted
C25_Witness ==
    /\ AcceptedDo
    /\ SemStatement.callExpression = CallNode("x", "m", <<IntegerLiteralNode(1)>>)

\* ------------------------------------------------------------------------
\* C26, C27: the parser
\* ------------------------------------------------------------------------
\* C26: in a file the parser accepts, no static or field declaration
\* follows a subroutine declaration
C26_ClassVarsBeforeSubroutines ==
    parsePc = "done" =>
        \A i, j \in DOMAIN jackFile.body :
            (i < j /\ jackFile.body[i] = "subroutine") => jackFile.body[j] # "classVar"

\* C27: an error of the parser carries the line and the column of the
\* token at which the rule was broken
C27_ErrorAtOffendingToken ==
    (parsePc = "failed" /\ parser.by = "parser") =>
        /\ parser.err.line = parser.offending.line
        /\ parser.err.column = parser.offending.column

\* ------------------------------------------------------------------------
\* C29: the token loop
\* ------------------------------------------------------------------------
\* C29: an advance or a peek that fetches a token moves the scanner forward,
\* or yields the end-of-file token, or throws; an advance on the
\* end-of-file token leaves it the current token, peeked at or not; and the
\* loop that calls advance reaches the end-of-file token or an error
C29_TokenLoopTerminates ==
    /\ [][ /\ (nAdvance' = nAdvance + 1 /\ lexLast' = "advance" /\ hasMoreTokens) =>
                \/ lexPos' > lexPos
                \/ currentToken'.type = "END_OF_FILE"
                \/ lexError' # NoLexError
           /\ (lexLast' = "peek" /\ peekToken = NoToken) =>
                \/ lexPos' > lexPos
                \/ peekToken'.type = "END_OF_FILE"
                \/ lexError' # NoLexError
           /\ (currentToken.type = "END_OF_FILE" /\ nAdvance' = nAdvance + 1) =>
                currentToken'.type = "END_OF_FILE"
         ]_vars
    /\ <>(~hasMoreTokens \/ lexError # NoLexError)

\* the loop has read three tokens and the end-of-file token, and an advance
\* made on it after a peek has left it in place
C29_Witness ==
    /\ lexError = NoLexError
    /\ Len(lexSrc) >= 3
    /\ nAdvance = Len(lexSrc) + 1
    /\ lexLast = "promote"
    /\ currentToken.type = "END_OF_FILE"

\* ------------------------------------------------------------------------
\* The stack depth of the emitted code
\* ------------------------------------------------------------------------
\* the number of values a VM line takes from the stack
StackTakes(l) ==
    CASE l[1] = "pop" -> 1
      [] l[1] \in {"add", "sub", "and", "or", "lt", "gt", "eq"} -> 2
      [] l[1] \in {"neg", "not"} -> 1
      [] l[1] = "call" -> l[4]
      [] l[1] = "if-goto" -> 1
      [] l[1] = "return" -> 1
      [] OTHER -> 0

\* the number of values it leaves there
StackLeaves(l) ==
    CASE l[1] = "push" -> 1
      [] l[1] \in {"add", "sub", "and", "or", "lt", "gt", "eq", "neg", "not"} -> 1
      [] l[1] = "call" -> 1
      [] OTHER -> 0

\* the depth the lines leave of a stack that held depth values of the
\* subroutine's own, -1 when a line takes more than is there
RECURSIVE DepthAfter(_, _)
DepthAfter(lines, depth) ==
    IF depth = -1 \/ lines = << >> THEN depth
    ELSE LET l == Head(lines)
         IN  IF StackTakes(l) > depth THEN -1
             ELSE DepthAfter(Tail(lines), depth - StackTakes(l) + StackLeaves(l))

\* C30: the code of an expression of an accepted program takes nothing from
\* the stack it starts on and leaves exactly one more value there.
C30_ExpressionLeavesOneValue ==
    exprOut # NoOutput => DepthAfter(exprOut, 0) = 1

\* ------------------------------------------------------------------------
\* Running the code of an array assignment on the target VM
\* ------------------------------------------------------------------------
\* The words of the machine are 0..MemSize-1 and its arithmetic is modulo
\* MemSize, as the 16-bit words of the target are modulo 2^16; every word
\* is the address of a cell of the heap.  The heap is apart from the frame
\* of the subroutine (its locals and its stack).
MemSize == 4
Words == 0..(MemSize - 1)
Word(n) == n % MemSize

\* the statement stands in `function int main()` of class Main, after
\* `var Array x, y; var int i;`
RunTable ==
    defineIn(defineIn(defineIn(startSubroutineIn(NewSymbolTable),
                               "x", "Array", "LCL").table,
                      "y", "Array", "LCL").table,
             "i", "int", "LCL").table

\* the value of an expression of the source in memory m
RECURSIVE ValueOf(_, _)
ValueOf(node, m) ==
    CASE node.type = "INTEGER_LITERAL" -> Word(node.value)
      [] node.type = "IDENTIFIER" ->
            LET v == m.local[indexOfIn(RunTable, node.name) + 1]
            IN  IF node.indexExpr # NoNode
                THEN m.heap[Word(v + ValueOf(node.indexExpr, m))]
                ELSE v
      [] node.type = "BINARY_OP" ->
            (IF node.op = "+" THEN Word(ValueOf(node.left, m) + ValueOf(node.right, m))
             ELSE Word(ValueOf(node.left, m) + MemSize - ValueOf(node.right, m)))
      [] node.type = "UNARY_OP" -> Word(MemSize - ValueOf(node.term, m))
      [] OTHER -> 0

\* the target VM on one line: what `push segment index` reads
Pushed(r, l) ==
    CASE l[2] = "constant" -> Word(l[3])
      [] l[2] = "local" -> r.local[l[3] + 1]
      [] l[2] = "that" -> r.heap[Word(r.that + l[3])]
      [] l[2] = "temp" -> r.temp
      [] l[2] = "pointer" -> r.that

\* what `pop segment index` writes, v being the value popped
Popped(r, l, v) ==
    CASE l[2] = "local" -> [r EXCEPT !.local[l[3] + 1] = v]
      [] l[2] = "that" -> [r EXCEPT !.heap[Word(r.that + l[3])] = v]
      [] l[2] = "temp" -> [r EXCEPT !.temp = v]
      [] l[2] = "pointer" -> [r EXCEPT !.that = v]

\* the stack without its top n values
DropLast(s, n) == SubSeq(s, 1, Len(s) - n)

\* the VM after the line at r.pc; a line that takes more values than the
\* stack holds is a fault
StepLine(r) ==
    LET l == r.code[r.pc]
        s == r.stack
        n == Len(s)
        next == [r EXCEPT !.pc = r.pc + 1]
    IN  IF StackTakes(l) > n THEN [r EXCEPT !.status = "fault"]
        ELSE CASE l[1] = "push" -> [next EXCEPT !.stack = Append(s, Pushed(r, l))]
               [] l[1] = "pop" -> Popped([next EXCEPT !.stack = DropLast(s, 1)], l, s[n])
               [] l[1] = "add" ->
                     [next EXCEPT !.stack = Append(DropLast(s, 2), Word(s[n - 1] + s[n]))]
               [] l[1] = "sub" ->
                     [next EXCEPT !.stack =
                         Append(DropLast(s, 2), Word(s[n - 1] + MemSize - s[n]))]
               [] l[1] = "neg" ->
                     [next EXCEPT !.stack = Append(DropLast(s, 1), Word(MemSize - s[n]))]
               [] l[1] = "not" ->
                     [next EXCEPT !.stack = Append(DropLast(s, 1), MemSize - 1 - s[n])]
               [] OTHER -> [r EXCEPT !.status = "fault"]

\* the expressions of the statements: constants and variables, array
\* elements read at them, at an element and at a sum, sums and negations
IntAtoms == {IntegerLiteralNode(1), IdentifierNode("i", NoNode)}
ArrayReads(S) == {IdentifierNode(a, t) : a \in {"x", "y"}, t \in S}
Sums(S, T) == {BinaryOpNode(l, "+", r) : l \in S, r \in T}
Negations(S) == {UnaryOpNode("-", t) : t \in S}
SimpleExprs == IntAtoms \cup ArrayReads(IntAtoms)
IndexExprs == SimpleExprs \cup Sums(IntAtoms, {IntegerLiteralNode(1)})
ValueExprs ==
    SimpleExprs \cup ArrayReads(ArrayReads(IntAtoms)) \cup ArrayReads(Sums(IntAtoms, IntAtoms))
    \cup Sums(SimpleExprs, ArrayReads(IntAtoms))
    \cup Negations(SimpleExprs \cup Negations(IntAtoms) \cup Sums(IntAtoms, IntAtoms))

\* the heaps before the statement: cell a holds a + k
Heap0(k) == [a \in Words |-> Word(a + k)]

InitRun ==
    /\ \E idx \in IndexExprs, val \in ValueExprs : letStmt = LetStatementNode("x", idx, val)
    /\ \E vx \in Words, vy \in Words, vi \in 0..1, k \in 0..1 :
            machine0 = [local |-> <<vx, vy, vi>>, heap |-> Heap0(k)]
    /\ run = NotRun

\* CodeGenerator::compileLet on a statement the analyser accepted; the VM
\* starts on the lines with the stack of the subroutine empty
CompileLet ==
    /\ run = NotRun
    /\ analyseLet(ExprContext, RunTable, letStmt)
    /\ run' = [status |-> "running", code |-> compileLet(RunTable, "Main", letStmt),
               pc |-> 1, stack |-> << >>, local |-> machine0.local,
               heap |-> machine0.heap, that |-> 0, temp |-> 0]
    /\ UNCHANGED <<letStmt, machine0>>
    /\ UNCHANGED <<driverVars, symVars, lexVars, exprVars, genVars, typeVars, semVars,
                   parseVars>>

\* the VM executes the next line
StepVM ==
    /\ run.status = "running"
    /\ run.pc <= Len(run.code)
    /\ run' = StepLine(run)
    /\ UNCHANGED <<letStmt, machine0>>
    /\ UNCHANGED <<driverVars, symVars, lexVars, exprVars, genVars, typeVars, semVars,
                   parseVars>>

\* the VM is past the last line of the statement
FinishVM ==
    /\ run.status = "running"
    /\ run.pc > Len(run.code)
    /\ run' = [run EXCEPT !.status = "finished"]
    /\ UNCHANGED <<letStmt, machine0>>
    /\ UNCHANGED <<driverVars, symVars, lexVars, exprVars, genVars, typeVars, semVars,
                   parseVars>>

NextRun == CompileLet \/ StepVM \/ FinishVM
InitRunSpec ==
    /\ DriverAtRest /\ InitSym /\ LexAtRest /\ ExprAtRest /\ GenAtRest
    /\ TypesAtRest /\ SemAtRest /\ ParserAtRest /\ InitRun
SpecRun == InitRunSpec /\ [][NextRun]_vars

\* the address x + i of the assignment, computed in the memory before the
\* statement
TargetAddress == Word(machine0.local[1] + ValueOf(letStmt.indexExpr, machine0))

\* C28: once the code of `let x[i] = e` has run, the cell at the address
\* x + i computed before e was evaluated holds the value of e, also when e
\* reads array elements and so overwrites pointer 1.
C28_StoresAtAddressComputedFirst ==
    run.status \in {"finished", "fault"} =>
        /\ run.status = "finished"
        /\ run.heap[TargetAddress] = ValueOf(letStmt.valueExpr, machine0)

====
